---------------------------- MODULE Spec2Model ----------------------------
(***************************************************************************)
(* CPU Guardian: the SPSC ring buffer (ringbuffer.c), the telemetry        *)
(* sampler thread (telemetry.c) and the orchestrator (main.c).             *)
(*                                                                         *)
(* SpecRB  : one producer and one consumer on a ring buffer, every load    *)
(*           and store of ringbuffer_push / ringbuffer_pop a step.         *)
(* Spec    : main() from start to exit, the sampler thread it starts and   *)
(*           the signal handler, with each call of main a step.            *)
(***************************************************************************)
EXTENDS Integers, Sequences, FiniteSets, TLC

(***************************************************************************)
(* Bounds of the model.                                                    *)
(***************************************************************************)
\* largest capacity requested from ringbuffer_init in SpecRB
MaxRequested == 4
\* number of ringbuffer_push calls of the producer in SpecRB
MaxPushes == 6
\* number of ringbuffer_pop calls of the consumer in SpecRB
MaxPops == 6
\* largest cfg.ringbuffer_capacity in Spec
MaxCapacity == 2
\* number of successful pmu_read calls of the sampler in Spec
MaxReads == 4
\* largest advance of the hardware counters between two reads in Spec
MaxInc == 2
\* significant bits of a double and of a float
DoubleBits == 6
FloatBits == 3
\* largest burst_window, and the calls made on an anomaly engine
MaxWindow == 4
MaxLearn == 2
MaxFinalize == 2
MaxDetect == 1
\* the samples of a detection phase
MaxStream == 4
\* calls made on a correlation engine
MaxCorrCalls == 3
\* calls of ipc_socket_send
MaxSends == 3
\* options on the command line
MaxArgs == 3
\* calls of pmu_read
MaxPmuReads == 2
\* calls made on a correlation engine whose table is nearly full
MaxFullCalls == 2
\* calls of logger_alert
MaxAlerts == 4
\* ticks of sampling_loop whose pmu_read fails
MaxFails == 2
\* calls of pmu_close on one context
MaxCloses == 2
\* bits of a size_t
SizeBits == 12

(***************************************************************************)
(* Bit operations on size_t values (all modelled values are below 2^31).   *)
(* A size_t keeps SizeBits bits: arithmetic on it wraps at 2^SizeBits.     *)
(***************************************************************************)
SizeWrap(v) == v % (2 ^ SizeBits)

RECURSIVE BitAnd(_, _)
BitAnd(a, b) ==
    IF a = 0 \/ b = 0 THEN 0
    ELSE (a % 2) * (b % 2) + 2 * BitAnd(a \div 2, b \div 2)

RECURSIVE BitOr(_, _)
BitOr(a, b) ==
    IF a = 0 THEN b
    ELSE IF b = 0 THEN a
    ELSE (IF (a % 2) + (b % 2) > 0 THEN 1 ELSE 0) + 2 * BitOr(a \div 2, b \div 2)

ShiftRight(v, k) == IF k >= 31 THEN 0 ELSE v \div (2 ^ k)

(***************************************************************************)
(* telemetry_sample_t; the three ratios are kept as <<numerator,           *)
(* denominator>> pairs.                                                    *)
(***************************************************************************)
ZeroRatio == <<0, 1>>

ZeroSample ==
    [timestamp_ns |-> 0, cache_references |-> 0, cache_misses |-> 0,
     branch_instructions |-> 0, branch_misses |-> 0, cycles |-> 0,
     instructions |-> 0, cache_miss_rate |-> ZeroRatio,
     branch_miss_rate |-> ZeroRatio, ipc |-> ZeroRatio]

(***************************************************************************)
(* ringbuffer.c                                                            *)
(***************************************************************************)
NextPowerOfTwo(v) ==
    LET v0 == SizeWrap(v - 1)
        v1 == BitOr(v0, ShiftRight(v0, 1))
        v2 == BitOr(v1, ShiftRight(v1, 2))
        v3 == BitOr(v2, ShiftRight(v2, 4))
        v4 == BitOr(v3, ShiftRight(v3, 8))
        v5 == BitOr(v4, ShiftRight(v4, 16))
        v6 == BitOr(v5, ShiftRight(v5, 32))
    IN  SizeWrap(v6 + 1)

\* (i + 1) & (capacity - 1): the index after i
RbNext(i, cap) == BitAnd(i + 1, cap - 1)

\* next == tail in ringbuffer_push
RbFullNever(next, tl) == FALSE
RbFull(next, tl) == next = tl

\* tail == head in ringbuffer_pop
RbEmptyNever(tl, hd) == FALSE
RbEmpty(tl, hd) == tl = hd

VARIABLES
    buffer,      \* rb->buffer: slot index -> sample, or <<>> when NULL
    capacity,    \* rb->capacity
    head,        \* rb->head
    tail         \* rb->tail

rbVars == <<buffer, capacity, head, tail>>

VARIABLES
    p_pc,        \* producer: position inside ringbuffer_push
    p_head,      \* producer: local head
    p_tail,      \* producer: local tail
    p_sample,    \* producer: *sample
    c_pc,        \* consumer: position inside ringbuffer_pop
    c_tail,      \* consumer: local tail
    c_head,      \* consumer: local head
    c_out,       \* consumer: *out
    pushed,      \* history: samples of the pushes that returned true
    pushResults, \* history: return value of every finished push
    popped,      \* history: samples of the pops that returned true
    popResults,  \* history: return value of every finished pop
    popStartAt   \* history: finished pushes when the first pop began, -1 before

spscVars == <<p_pc, p_head, p_tail, p_sample, c_pc, c_tail, c_head, c_out,
              pushed, pushResults, popped, popResults, popStartAt>>

VARIABLES
    main,        \* main(): pc, lifecycle state, cfg, locals, pending teardown
    res,         \* resources held by the process (handles, heap blocks)
    eng,         \* telemetry_engine_t: running flag and thread
    smp,         \* sampling_loop: pc and locals, and the hardware counters
    anomaly,     \* anomaly_engine_t: n and baseline.ready
    g_shutdown,  \* the cancellation token
    hist         \* history of the run

sysVars == <<main, res, eng, smp, anomaly, g_shutdown, hist>>

VARIABLES
    ae,          \* an anomaly_engine_t driven directly through its interface
    result,      \* the anomaly_result_t of the last anomaly_detect
    ah           \* history of the calls made on ae

aeVars == <<ae, result, ah>>

VARIABLES
    corr,        \* a correlation_engine_t driven directly through its interface
    ch           \* history of the calls made on corr

corrVars == <<corr, ch>>

VARIABLES
    loop         \* the detection loop of main: clock, counters, last alert

VARIABLES
    ipcs,        \* the IPC sender: calls, last datagram, lines on stderr
    conf,        \* config_parse_args: arguments, file and guardian_config_t
    pmu,         \* a pmu_context_t and the counters behind it
    lg,          \* a logger_t, the monotonic clock and the alerts written
    ri,          \* one call of ringbuffer_init: request, result, allocation
    cnt,         \* a caller of ringbuffer_count: position, locals, result
    sl           \* the locals of sampling_loop and the reads it has made

unitVars == <<corrVars, loop, ipcs, conf, pmu, lg, ri, cnt, sl>>

\* the variables no call on the correlation engine changes, and the same
\* for the detection loop and the IPC sender
corrOthers == <<loop, ipcs, conf, pmu, lg, ri, cnt, sl>>
loopOthers == <<ipcs, conf, pmu, lg, ri, cnt, sl>>
ipcOthers == <<corrVars, loop, conf, pmu, lg, ri, cnt, sl>>
confOthers == <<corrVars, loop, ipcs, pmu, lg, ri, cnt, sl>>
pmuOthers == <<corrVars, loop, ipcs, conf, lg, ri, cnt, sl>>
logOthers == <<corrVars, loop, ipcs, conf, pmu, ri, cnt, sl>>
initOthers == <<corrVars, loop, ipcs, conf, pmu, lg, cnt, sl>>
countOthers == <<corrVars, loop, ipcs, conf, pmu, lg, ri, sl>>
slOthers == <<corrVars, loop, ipcs, conf, pmu, lg, ri, cnt>>

vars == <<rbVars, spscVars, sysVars, aeVars, unitVars>>

(***************************************************************************)
(* pmu.h / telemetry.c: readings and samples                               *)
(***************************************************************************)
\* pmu_reading_t of the hardware after k units of work
HwReading(k) ==
    [cache_references |-> 3 * k, cache_misses |-> k,
     branch_instructions |-> 2 * k, branch_misses |-> k,
     instructions |-> 4 * k, cycles |-> 5 * k]

\* pmu_reading_t prev = {0}
ZeroReading == HwReading(0)

\* sampling_loop, lines 143-150: delta = cur - prev, field by field
Delta(cur, prev) == [f \in DOMAIN cur |-> cur[f] - prev[f]]

\* compute_derived, with the timestamp stored at line 154
ComputeDerived(ts, r) ==
    [timestamp_ns |-> ts,
     cache_references |-> r.cache_references,
     cache_misses |-> r.cache_misses,
     branch_instructions |-> r.branch_instructions,
     branch_misses |-> r.branch_misses,
     instructions |-> r.instructions,
     cycles |-> r.cycles,
     cache_miss_rate |->
        IF r.instructions > 0 THEN <<r.cache_misses, r.instructions>> ELSE ZeroRatio,
     branch_miss_rate |->
        IF r.branch_instructions > 0
        THEN <<r.branch_misses, r.branch_instructions>> ELSE ZeroRatio,
     ipc |-> IF r.cycles > 0 THEN <<r.instructions, r.cycles>> ELSE ZeroRatio]

\* the six delta counters of a sample, as a reading
SampleCounters(s) == [f \in DOMAIN ZeroReading |-> s[f]]

\* sampling_loop, line 160: prev = cur, whatever ringbuffer_push returned
NewPrevWhenPushed(prev, cur, pushOk) == IF pushOk THEN cur ELSE prev
NewPrev(prev, cur, pushOk) == cur

\* sampling_loop, line 115: pmu_open(...) != 0
PmuOpenFailed(rc) == rc # 0

\* pthread_join returns once the thread has terminated
ThreadTerminatedAlways(thread) == TRUE
ThreadTerminated(thread) == thread = "exited"

(***************************************************************************)
(* main.c: the tests main makes on its way                                 *)
(***************************************************************************)
\* line 255: while (!g_shutdown)
LearnLoopGuardAlways(g) == TRUE
LearnLoopGuard(g) == g = 0

\* line 276: if (g_shutdown) goto cleanup
CancelledAfterLearningNever(g) == FALSE
CancelledAfterLearning(g) == g # 0

\* line 280: if (learn_samples == 0)
NoLearnSamplesNever(n) == FALSE
NoLearnSamples(n) == n = 0

\* line 303: while (!g_shutdown)
DetectLoopGuardAlways(g) == TRUE
DetectLoopGuard(g) == g = 0

\* the calls main makes before each return
ConfigFailPath == <<>>
PmuTestPath == <<>>
LoggerInitFailPath == <<>>
RingbufferInitFailPath == <<"logger_destroy">>
TelemetryStartFailPath == <<"ringbuffer_destroy", "logger_destroy">>
AnomalyInitFailPath == <<"telemetry_stop", "ringbuffer_destroy", "logger_destroy">>
ZeroSamplesPath ==
    <<"telemetry_stop", "anomaly_destroy", "ringbuffer_destroy", "logger_destroy">>
CleanupPath ==
    <<"ipc_socket_close", "telemetry_stop", "anomaly_destroy",
      "ringbuffer_destroy", "logger_destroy">>

\* guardian_config_t, the fields main's control flow reads
Configs ==
    [pmu_test : BOOLEAN, log_to_file : BOOLEAN,
     ringbuffer_capacity : 0..MaxCapacity, enable_ml_output : BOOLEAN]

\* the identity of the process while drop_privileges (part_006, lines
\* 103-123) has not run: not asked for yet, no setgid or setuid call made
NoCred ==
    [euid |-> -1, egid |-> -1,
     setgid_calls |-> 0, setuid_calls |-> 0, order |-> <<>>]

\* the process before main runs
SysInit ==
    /\ main = [pc |-> "config", lifecycle |-> "INIT",
               cfg |-> [pmu_test |-> FALSE, log_to_file |-> FALSE,
                        ringbuffer_capacity |-> 0, enable_ml_output |-> FALSE],
               learn_samples |-> 0, total_samples |-> 0, anomaly_samples |-> 0,
               ml_sock_fd |-> -1, todo |-> <<>>, status |-> 0, exit_code |-> -1]
    /\ res = [handler |-> FALSE, log_file |-> "none", rb_block |-> "none",
              anomaly |-> "none", ipc_sock |-> "none",
              sampler_pmu |-> "none", test_pmu |-> "none"]
    /\ eng = [running |-> FALSE, thread |-> "none", joined |-> FALSE]
    /\ smp = [pc |-> "none", prev |-> ZeroReading, have_prev |-> FALSE,
              reads |-> 0, hw |-> 0]
    /\ anomaly = [n |-> 0, ready |-> FALSE]
    /\ g_shutdown = 0
    /\ hist = [exit_via |-> "none", learn_deadline |-> FALSE,
               cancel_in_learn_loop |-> FALSE, saw_shutdown_276 |-> "unset",
               pmu_open_failed |-> FALSE, use_after_free |-> FALSE,
               finalize_calls |-> 0, detect_calls |-> 0, alerts |-> 0,
               priv_drops |-> 0, cred |-> NoCred, launched |-> "unset",
               pushes |-> 0, drops |-> 0,
               popped |-> <<>>, learned |-> <<>>, detected |-> <<>>,
               sent |-> <<>>, send_failed |-> FALSE,
               last_ok_read |-> ZeroReading, last_pushed_read |-> ZeroReading,
               dropped_since_push |-> FALSE,
               last_push |-> [valid |-> FALSE, after_drop |-> FALSE,
                              counters |-> ZeroReading, cur |-> ZeroReading,
                              prev_read |-> ZeroReading,
                              prev_pushed |-> ZeroReading]]

(***************************************************************************)
(* Binary floating point with round to nearest, ties to even, as the       *)
(* arithmetic of anomaly.c uses it.  A value is <<m, e>>, standing for     *)
(* m * 2^e, with m odd, or <<0, 0>>.  A double keeps DoubleBits            *)
(* significant bits and a float FloatBits; the exponent is not bounded.    *)
(***************************************************************************)
FloatZero == <<0, 0>>
FloatOne == <<1, 0>>

Min(x, y) == IF x <= y THEN x ELSE y
Max(x, y) == IF x >= y THEN x ELSE y

RECURSIVE BitLen(_)
BitLen(n) == IF n = 0 THEN 0 ELSE 1 + BitLen(n \div 2)

RECURSIVE Canon(_, _)
Canon(m, e) ==
    IF m = 0 THEN FloatZero
    ELSE IF m % 2 = 0 THEN Canon(m \div 2, e + 1) ELSE <<m, e>>

\* (n + f) * 2^e, where 0 <= f < 1 and f > 0 iff sticky, rounded to p bits
RoundNearestEven(n, sticky, e, p) ==
    LET l == BitLen(n) - p
    IN  IF l <= 0 THEN Canon(n, e)
        ELSE LET mant == n \div (2 ^ l)
                 rem == n % (2 ^ l)
                 half == 2 ^ (l - 1)
                 up == rem > half \/ (rem = half /\ (sticky \/ mant % 2 = 1))
             IN  Canon(mant + (IF up THEN 1 ELSE 0), e + l)

RoundSigned(s, e, p) ==
    IF s < 0
    THEN LET r == RoundNearestEven(-s, FALSE, e, p) IN <<-r[1], r[2]>>
    ELSE RoundNearestEven(s, FALSE, e, p)

FNeg(a) == <<-a[1], a[2]>>
FAbs(a) == <<IF a[1] < 0 THEN -a[1] ELSE a[1], a[2]>>

FAddP(a, b, p) ==
    IF a[1] = 0 THEN b
    ELSE IF b[1] = 0 THEN a
    ELSE LET e == Min(a[2], b[2])
         IN  RoundSigned(a[1] * 2 ^ (a[2] - e) + b[1] * 2 ^ (b[2] - e), e, p)

\* double + double, double - double, double * double
FAdd(a, b) == FAddP(a, b, DoubleBits)
FSub(a, b) == FAddP(a, FNeg(b), DoubleBits)
FMul(a, b) == RoundSigned(a[1] * b[1], a[2] + b[2], DoubleBits)

\* double / double, b # 0
FDiv(a, b) ==
    LET n == FAbs(a)[1]
        d == FAbs(b)[1]
        s == Max(0, DoubleBits + 2 + BitLen(d) - BitLen(n))
        q == (n * 2 ^ s) \div d
        r == (n * 2 ^ s) % d
        mag == RoundNearestEven(q, r # 0, a[2] - b[2] - s, DoubleBits)
    IN  IF a[1] = 0 THEN FloatZero
        ELSE IF (a[1] < 0) # (b[1] < 0) THEN FNeg(mag) ELSE mag

RECURSIVE ISqrtIn(_, _, _)
ISqrtIn(n, lo, hi) ==
    IF lo = hi THEN lo
    ELSE LET mid == (lo + hi + 1) \div 2
         IN  IF mid * mid <= n THEN ISqrtIn(n, mid, hi) ELSE ISqrtIn(n, lo, mid - 1)

\* sqrt(double), a >= 0
FSqrt(a) ==
    LET k0 == Max(0, 2 * DoubleBits + 3 - BitLen(a[1]))
        k == IF (a[2] - k0) % 2 = 0 THEN k0 ELSE k0 + 1
        n == a[1] * 2 ^ k
        r == ISqrtIn(n, 0, 2 ^ (DoubleBits + 2))
    IN  IF a[1] = 0 THEN FloatZero
        ELSE RoundNearestEven(r, r * r # n, (a[2] - k) \div 2, DoubleBits)

\* a < b for a > 0 and b > 0
MagLess(a, b) ==
    LET ta == BitLen(a[1]) + a[2]
        tb == BitLen(b[1]) + b[2]
        e == Min(a[2], b[2])
    IN  IF ta # tb THEN ta < tb
        ELSE a[1] * 2 ^ (a[2] - e) < b[1] * 2 ^ (b[2] - e)

\* a < b
FLess(a, b) ==
    IF a[1] < 0 THEN (b[1] >= 0 \/ MagLess(FNeg(b), FNeg(a)))
    ELSE IF a[1] = 0 THEN b[1] > 0
    ELSE b[1] > 0 /\ MagLess(a, b)

\* (double)n of a size_t, (float)x of a double
FromInt(n) == RoundNearestEven(n, FALSE, 0, DoubleBits)
ToFloat(a) == RoundSigned(a[1], a[2], FloatBits)

(***************************************************************************)
(* anomaly.h, anomaly.c: the anomaly engine                                *)
(***************************************************************************)
\* anomaly_flags_t
ANOMALY_NONE == 0
ANOMALY_CACHE_MISS_SPIKE == 1
ANOMALY_BRANCH_MISS_SPIKE == 2
ANOMALY_IPC_COLLAPSE == 4
ANOMALY_BURST_PATTERN == 8
ANOMALY_OSCILLATION == 16

\* compute_z, line 140: the literal 1e-12 as a double
TinyStd == <<35, -45>>

\* the z_threshold values given to anomaly_init: -1, 1/2, 1, 256
Thresholds == {<<-1, 0>>, <<1, -1>>, <<1, 0>>, <<1, 8>>}

\* the rates of the samples given to the engine: a telemetry_sample_t
\* restricted to the three fields anomaly.c reads
Quiet ==
    [cache_miss_rate |-> <<1, -3>>, branch_miss_rate |-> <<1, -4>>, ipc |-> <<5, -1>>]
CacheHot == [Quiet EXCEPT !.cache_miss_rate = <<5, -3>>]
BranchHot == [Quiet EXCEPT !.branch_miss_rate = <<5, -4>>]
Stalled == [Quiet EXCEPT !.ipc = <<1, -1>>]
Samples == {Quiet, CacheHot, BranchHot, Stalled}

\* anomaly_result_t after memset(result, 0, sizeof(*result))
ZeroResult ==
    [z_cache_miss |-> FloatZero, z_branch_miss |-> FloatZero, z_ipc |-> FloatZero,
     composite_score |-> FloatZero, anomaly_flags |-> ANOMALY_NONE,
     sustained_count |-> 0]

\* baseline_profile_t, all bytes zero
ZeroBaseline ==
    [mean_cache_miss_rate |-> FloatZero, std_cache_miss_rate |-> FloatZero,
     mean_branch_miss_rate |-> FloatZero, std_branch_miss_rate |-> FloatZero,
     mean_ipc |-> FloatZero, std_ipc |-> FloatZero,
     sample_count |-> 0, ready |-> FALSE]

\* anomaly_init, lines 54-67, when calloc returned a block
anomaly_init(z_threshold, burst_window) ==
    [baseline |-> ZeroBaseline,
     z_threshold |-> z_threshold,
     burst_window |-> burst_window,
     sum_cmr |-> FloatZero, sum_cmr2 |-> FloatZero,
     sum_bmr |-> FloatZero, sum_bmr2 |-> FloatZero,
     sum_ipc |-> FloatZero, sum_ipc2 |-> FloatZero,
     n |-> 0,
     consecutive_anomalies |-> 0,
     recent_cmr |-> [i \in 0..(burst_window - 1) |-> FloatZero],
     recent_idx |-> 0,
     recent_cap |-> burst_window]

\* anomaly_learn, lines 76-91
anomaly_learnCounted(e, s) ==
    LET cmr == s.cache_miss_rate
        bmr == s.branch_miss_rate
        ipc == s.ipc
    IN  [e EXCEPT !.sum_cmr = FAdd(@, cmr), !.sum_cmr2 = FAdd(@, FMul(cmr, cmr)),
                  !.sum_bmr = FAdd(@, bmr), !.sum_bmr2 = FAdd(@, FMul(bmr, bmr)),
                  !.sum_ipc = FAdd(@, ipc), !.sum_ipc2 = FAdd(@, FMul(ipc, ipc)),
                  !.n = @ + 1,
                  !.baseline.sample_count = e.n + 1]
anomaly_learn(e, s) ==
    LET cmr == s.cache_miss_rate
        bmr == s.branch_miss_rate
        ipc == s.ipc
    IN  [e EXCEPT !.sum_cmr = FAdd(@, cmr), !.sum_cmr2 = FAdd(@, FMul(cmr, cmr)),
                  !.sum_bmr = FAdd(@, bmr), !.sum_bmr2 = FAdd(@, FMul(bmr, bmr)),
                  !.sum_ipc = FAdd(@, ipc), !.sum_ipc2 = FAdd(@, FMul(ipc, ipc)),
                  !.n = @ + 1]

\* anomaly_finalize_baseline, lines 104-117: one variance
Variance(count, sum2, mean) ==
    LET v == FSub(FDiv(sum2, FromInt(count)), FMul(mean, mean))
    IN  IF count >= 2 /\ ~FLess(v, FloatZero) THEN v ELSE FloatZero

\* anomaly_finalize_baseline, line 95: the early return
NothingLearnedAlways(n) == TRUE
NothingLearned(n) == n < 1

\* anomaly_finalize_baseline, line 123: baseline.sample_count = eng->n
FinalCountAdds(e) == e.baseline.sample_count + e.n
FinalCount(e) == e.n

\* anomaly_finalize_baseline, lines 93-124
anomaly_finalize_baseline(e) ==
    IF NothingLearned(e.n) THEN e
    ELSE LET n == FromInt(e.n)
             mean_cmr == FDiv(e.sum_cmr, n)
             mean_bmr == FDiv(e.sum_bmr, n)
             mean_ipc == FDiv(e.sum_ipc, n)
         IN  [e EXCEPT !.baseline =
                [mean_cache_miss_rate |-> mean_cmr,
                 std_cache_miss_rate |-> FSqrt(Variance(e.n, e.sum_cmr2, mean_cmr)),
                 mean_branch_miss_rate |-> mean_bmr,
                 std_branch_miss_rate |-> FSqrt(Variance(e.n, e.sum_bmr2, mean_bmr)),
                 mean_ipc |-> mean_ipc,
                 std_ipc |-> FSqrt(Variance(e.n, e.sum_ipc2, mean_ipc)),
                 sample_count |-> FinalCount(e),
                 ready |-> TRUE]]

\* compute_z, lines 138-142
compute_z(value, mean, std) ==
    IF FLess(std, TinyStd) THEN FloatZero ELSE FDiv(FSub(value, mean), std)

\* detect_oscillation, lines 152-160: iterations i..cap-1 of the loop
RECURSIVE DirectionChanges(_, _, _, _, _, _)
DirectionChanges(buf, cap, idx, i, direction_changes, prev_dir) ==
    IF i >= cap THEN direction_changes
    ELSE LET a == (idx + cap - i) % cap
             b == (idx + cap - i - 1) % cap
             diff == FAddP(buf[a], FNeg(buf[b]), FloatBits)
             dir == IF diff[1] > 0 THEN 1 ELSE IF diff[1] < 0 THEN -1 ELSE 0
         IN  DirectionChanges(buf, cap, idx, i + 1,
                 IF dir # 0 /\ dir # prev_dir /\ prev_dir # 0
                 THEN direction_changes + 1 ELSE direction_changes,
                 IF dir # 0 THEN dir ELSE prev_dir)

\* detect_oscillation, line 162: direction_changes >= (int)(cap / 2)
EnoughChangesAlways(direction_changes, cap) == TRUE
EnoughChanges(direction_changes, cap) == direction_changes >= cap \div 2

\* detect_oscillation, lines 145-163
detect_oscillation(buf, cap, idx) ==
    IF cap < 4 THEN FALSE
    ELSE EnoughChanges(DirectionChanges(buf, cap, idx, 1, 0, 0), cap)

\* anomaly_detect, lines 185-202: the three primary flags
SpikeAlways(z, threshold) == TRUE
Spike(z, threshold) == FLess(threshold, z)
CollapseNever(z, threshold) == FALSE
Collapse(z, threshold) == FLess(z, FNeg(threshold))

\* anomaly_detect, lines 226-233: the composite score; 1.0 / 0.0 is +inf,
\* 1.0 - inf is -inf, which the last test sets to 0
CompositeScore(max_z, z_threshold) ==
    LET den == FAdd(FloatOne, FDiv(max_z, z_threshold))
        score == FSub(FloatOne, FDiv(FloatOne, den))
    IN  IF den = FloatZero THEN FloatZero
        ELSE IF FLess(FloatOne, score) THEN FloatOne
        ELSE IF FLess(score, FloatZero) THEN FloatZero
        ELSE score

\* anomaly_detect, lines 174-234, with a ready baseline; next_idx is the
\* value line 206 leaves in recent_idx
DetectReady(e, s, next_idx) ==
    LET cmr == s.cache_miss_rate
        bmr == s.branch_miss_rate
        ipc == s.ipc
        z_cache_miss == compute_z(cmr, e.baseline.mean_cache_miss_rate,
                                  e.baseline.std_cache_miss_rate)
        z_branch_miss == compute_z(bmr, e.baseline.mean_branch_miss_rate,
                                   e.baseline.std_branch_miss_rate)
        z_ipc == compute_z(ipc, e.baseline.mean_ipc, e.baseline.std_ipc)
        primary ==
            BitOr(IF Spike(z_cache_miss, e.z_threshold)
                  THEN ANOMALY_CACHE_MISS_SPIKE ELSE ANOMALY_NONE,
            BitOr(IF Spike(z_branch_miss, e.z_threshold)
                  THEN ANOMALY_BRANCH_MISS_SPIKE ELSE ANOMALY_NONE,
                  IF Collapse(z_ipc, e.z_threshold)
                  THEN ANOMALY_IPC_COLLAPSE ELSE ANOMALY_NONE))
        anomalous == primary # ANOMALY_NONE
        recent == IF e.recent_idx \in DOMAIN e.recent_cmr
                  THEN [e.recent_cmr EXCEPT ![e.recent_idx] = ToFloat(cmr)]
                  ELSE e.recent_cmr
        consecutive == IF anomalous THEN e.consecutive_anomalies + 1 ELSE 0
        burst == IF anomalous /\ consecutive >= e.burst_window
                 THEN ANOMALY_BURST_PATTERN ELSE ANOMALY_NONE
        osc == IF detect_oscillation(recent, e.recent_cap, next_idx)
               THEN ANOMALY_OSCILLATION ELSE ANOMALY_NONE
        m1 == FAbs(z_cache_miss)
        m2 == IF FLess(m1, FAbs(z_branch_miss)) THEN FAbs(z_branch_miss) ELSE m1
        max_z == IF FLess(m2, FAbs(z_ipc)) THEN FAbs(z_ipc) ELSE m2
    IN  [eng |-> [e EXCEPT !.recent_cmr = recent,
                           !.recent_idx = next_idx,
                           !.consecutive_anomalies = consecutive],
         result |-> [z_cache_miss |-> z_cache_miss,
                     z_branch_miss |-> z_branch_miss,
                     z_ipc |-> z_ipc,
                     composite_score |-> CompositeScore(max_z, e.z_threshold),
                     anomaly_flags |-> BitOr(primary, BitOr(burst, osc)),
                     sustained_count |-> consecutive]]

\* the rates of a sample whose bytes are all zero
ZeroRates ==
    [cache_miss_rate |-> FloatZero, branch_miss_rate |-> FloatZero, ipc |-> FloatZero]

\* the history of an engine on which no call was made
NoCalls ==
    [learns |-> 0, finalizes |-> 0, detects |-> 0, trapped |-> FALSE,
     learned |-> {}, flat |-> FALSE, finalized |-> FALSE,
     run |-> 0, fed |-> <<>>, last |-> ZeroRates, same |-> TRUE,
     learned_since |-> FALSE, refinalized |-> FALSE]

\* the engine and the result before anomaly_init
AeNone ==
    /\ ae = anomaly_init(FloatOne, 0)
    /\ result = ZeroResult
    /\ ah = NoCalls

(***************************************************************************)
(* correlation.h, correlation.c: the correlation engine                    *)
(***************************************************************************)
\* correlation.h, line 54
CORR_MAX_TRACKED == 256

\* correlation_decay, line 128: nanoseconds in a second
NsPerSec == 1000000000

\* float + float, float - float, float * float
FAddF(a, b) == FAddP(a, b, FloatBits)
FSubF(a, b) == FAddP(a, FNeg(b), FloatBits)
FMulF(a, b) == RoundSigned(a[1] * b[1], a[2] + b[2], FloatBits)

\* correlation_update, line 114: the float nearest 0.3
Alpha == <<5, -4>>

\* correlation_update, line 117: 0.5f
SuspiciousAbove == <<1, -1>>

\* correlation_decay, line 141: the float nearest 0.001
SnapBelow == <<1, -10>>

\* the risk_decay_factor values given to correlation_init: 0.95 to the
\* precision of a double, and 1/2
DecayFactors == {<<61, -6>>, <<1, -1>>}

\* the correlation_window_sec values given to correlation_init
Windows == {0, 1}

\* the pids, composite scores and timestamps given to the engine
CorrPids == {1, 2}
CorrScores == {FloatZero, <<1, -8>>, <<5, -6>>, <<1, -2>>}
CorrTimes == {0, NsPerSec, 2 * NsPerSec + 1}

\* correlation_resolve_comm, lines 171-196: the name read from /proc
Comm(pid) == IF pid <= 0 THEN "<unknown>" ELSE "comm"

\* correlation_init, lines 62-70
correlation_init(decay_factor, window_sec) ==
    [entries |-> [i \in {} |-> 0], count |-> 0,
     decay_factor |-> decay_factor, window_sec |-> window_sec]

\* find_or_create, lines 80-89 and 94-99: the slot after memset and the
\* three assignments
NewEntry(pid, tid) ==
    [pid |-> pid, tid |-> tid, comm |-> Comm(pid), anomaly_score |-> FloatZero,
     suspicious_samples |-> 0, total_samples |-> 0, last_seen_ns |-> 0,
     active |-> TRUE]

\* the lowest index of a non-empty set of slots
Lowest(slots) == CHOOSE i \in slots : \A j \in slots : i <= j

\* find_or_create, line 75: the slots the first loop accepts
ActiveSlotsNone(entries, pid) == {}
ActiveSlots(entries, pid) ==
    {i \in DOMAIN entries : entries[i].pid = pid /\ entries[i].active}

\* find_or_create, line 81: the slots the second loop accepts
InactiveSlotsNone(entries) == {}
InactiveSlots(entries) == {i \in DOMAIN entries : ~entries[i].active}

\* find_or_create, line 92: eng->count >= CORR_MAX_TRACKED
TableFullNever(count) == FALSE
TableFull(count) == count >= CORR_MAX_TRACKED

\* find_or_create, lines 72-101: the engine after the call and the index of
\* the entry returned, -1 for NULL
find_or_create(engine, pid, tid) ==
    IF ActiveSlots(engine.entries, pid) # {}
    THEN [eng |-> engine, slot |-> Lowest(ActiveSlots(engine.entries, pid))]
    ELSE IF InactiveSlots(engine.entries) # {}
    THEN LET i == Lowest(InactiveSlots(engine.entries))
         IN  [eng |-> [engine EXCEPT !.entries[i] = NewEntry(pid, tid)], slot |-> i]
    ELSE IF TableFull(engine.count)
    THEN [eng |-> engine, slot |-> -1]
    ELSE [eng |-> [engine EXCEPT
                     !.entries = [i \in 0..engine.count |->
                                    IF i = engine.count THEN NewEntry(pid, tid)
                                    ELSE engine.entries[i]],
                     !.count = @ + 1],
          slot |-> engine.count]

\* correlation_update, line 115: the exponential moving average
Smooth(anomaly_score, score) ==
    FAddF(FMulF(Alpha, score), FMulF(FSubF(FloatOne, Alpha), anomaly_score))

\* correlation_update, lines 103-122
correlation_update(engine, pid, tid, score, timestamp_ns) ==
    LET f == find_or_create(engine, pid, tid)
    IN  IF f.slot = -1 THEN engine
        ELSE [f.eng EXCEPT !.entries[f.slot] =
                [@ EXCEPT !.total_samples = @ + 1,
                          !.last_seen_ns = timestamp_ns,
                          !.anomaly_score = Smooth(@, score),
                          !.suspicious_samples =
                              IF FLess(SuspiciousAbove, score) THEN @ + 1 ELSE @]]

\* correlation_lookup, lines 147-156: the index of the entry returned, -1
\* for NULL
correlation_lookup(engine, pid) ==
    LET found == {i \in DOMAIN engine.entries :
                     engine.entries[i].pid = pid /\ engine.entries[i].active}
    IN  IF found = {} THEN -1 ELSE Lowest(found)

\* correlation_decay, lines 135-136: age = now_ns - last_seen_ns in uint64_t,
\* age > window_ns.  A difference below zero wraps to 2^64 minus its size,
\* which is above every window_ns (at most 2^32 * 10^9).
AgeExceedsNever(now_ns, last_seen_ns, window_ns) == FALSE
AgeExceeds(now_ns, last_seen_ns, window_ns) ==
    IF now_ns >= last_seen_ns THEN now_ns - last_seen_ns > window_ns ELSE TRUE

\* correlation_decay, lines 140-143
Decayed(anomaly_score, decay_factor) ==
    LET product == FMulF(anomaly_score, ToFloat(decay_factor))
    IN  IF FLess(product, SnapBelow) THEN FloatZero ELSE product

\* correlation_decay, lines 124-145
correlation_decay(engine, now_ns) ==
    LET window_ns == engine.window_sec * NsPerSec
    IN  [engine EXCEPT !.entries =
            [i \in DOMAIN engine.entries |->
                LET e == engine.entries[i]
                IN  IF ~e.active THEN e
                    ELSE IF AgeExceeds(now_ns, e.last_seen_ns, window_ns)
                    THEN [e EXCEPT !.active = FALSE]
                    ELSE [e EXCEPT !.anomaly_score =
                                      Decayed(@, engine.decay_factor)]]]

\* the history of a correlation engine on which no call was made
NoCorrCalls ==
    [calls |-> 0, op |-> "none", pid |-> 0, score |-> FloatZero, time |-> 0,
     streak |-> 0, snapped |-> FALSE, made |-> "none"]

\* the correlation engine before correlation_init
CorrNone ==
    /\ corr = correlation_init(FloatOne, 0)
    /\ ch = NoCorrCalls

\* main, lines 300-301, 125-130: the detection loop before its first pass
NoLoop ==
    [now |-> 0, last_decay_ns |-> 0, total_samples |-> 0, anomaly_samples |-> 0,
     raised |-> FALSE, updated |-> FALSE, level |-> "INFO",
     score |-> FloatZero, flags |-> ANOMALY_NONE]

\* the IPC sender before its first call
NoIpc ==
    [calls |-> 0, rc |-> 0, outcome |-> "none", sample |-> <<>>, wire |-> <<>>,
     stderr |-> <<>>]

\* the configuration before config_set_defaults, with no arguments
NoConf ==
    [parsed |-> FALSE, rc |-> 0, argv |-> <<>>,
     file |-> [exists |-> FALSE, lines |-> <<>>],
     cfg |-> [sampling_interval_us |-> 0, learning_duration_sec |-> 0,
              verbose |-> FALSE]]

\* a pmu_context_t before pmu_open
NoPmu ==
    [called |-> FALSE, rc |-> 0, fds |-> [i \in 0..5 |-> -1], group_fd |-> -1,
     cpu |-> 0, pid |-> 0, opens |-> {}, enabled |-> FALSE,
     made |-> {}, shut |-> [d \in 0..6 |-> 0], closes |-> 0,
     reads |-> 0, read_rc |-> 0, out |-> ZeroReading]

\* logger_init, lines 95-121, with no cooldown; the clock has not been read
\* and no alert has been written
NoLog ==
    [log |-> [cooldown_sec |-> 0, last_alert_ns |-> 0],
     now |-> 0, calls |-> 0, out |-> <<>>,
     last |-> [suppressed |-> FALSE, emitted |-> FALSE, n |-> 0]]

\* no call of ringbuffer_count made
NoCount ==
    [pc |-> "idle", head |-> 0, started |-> 0, quiet |-> FALSE,
     result |-> 0, called |-> FALSE]

\* ringbuffer_init not called
NoRbInit == [requested |-> 0, called |-> FALSE, rc |-> 0, block |-> "none"]

\* sampling_loop, lines 133-134: prev = {0}, have_prev = false
NoLoopState ==
    [prev |-> ZeroReading, have_prev |-> FALSE, hw |-> 0, reads |-> 0,
     fails |-> 0, attempts |-> 0, skipped |-> FALSE,
     last_ok_read |-> ZeroReading,
     last |-> [valid |-> FALSE, after_skip |-> FALSE, counters |-> ZeroReading,
               cur |-> ZeroReading, prev_read |-> ZeroReading]]

\* the units other than the correlation engine, before their first call
OthersNone ==
    /\ loop = NoLoop
    /\ ipcs = NoIpc
    /\ conf = NoConf
    /\ pmu = NoPmu
    /\ lg = NoLog
    /\ ri = NoRbInit
    /\ cnt = NoCount
    /\ sl = NoLoopState

\* the units driven on their own, before their first call
UnitNone ==
    /\ CorrNone
    /\ OthersNone

\* the ring buffer before ringbuffer_init
RbNone == buffer = <<>> /\ capacity = 0 /\ head = 0 /\ tail = 0

\* the sample of the n-th push of the producer
NthSample(n) == [ZeroSample EXCEPT !.timestamp_ns = n]

\* ringbuffer_init(rb, requested) that returned 0
RingbufferInitOk(requested) ==
    /\ requested # 0
    /\ capacity = NextPowerOfTwo(requested)
    /\ buffer = [i \in 0..(NextPowerOfTwo(requested) - 1) |-> ZeroSample]
    /\ head = 0
    /\ tail = 0

SpscIdle ==
    /\ p_pc = "idle" /\ p_head = 0 /\ p_tail = 0 /\ p_sample = ZeroSample
    /\ c_pc = "idle" /\ c_tail = 0 /\ c_head = 0 /\ c_out = ZeroSample
    /\ pushed = <<>> /\ pushResults = <<>>
    /\ popped = <<>> /\ popResults = <<>>
    /\ popStartAt = -1

InitRB ==
    /\ \E requested \in 1..MaxRequested : RingbufferInitOk(requested)
    /\ SpscIdle
    /\ SysInit
    /\ AeNone
    /\ UnitNone

\* ringbuffer_push, line 77: the producer loads head
PushLoadHead ==
    /\ p_pc = "idle"
    /\ Len(pushResults) < MaxPushes
    /\ p_sample' = NthSample(Len(pushResults) + 1)
    /\ p_head' = head
    /\ p_pc' = "load_tail"
    /\ UNCHANGED <<rbVars, p_tail, c_pc, c_tail, c_head, c_out,
                   pushed, pushResults, popped, popResults, popStartAt>>
    /\ UNCHANGED <<sysVars, aeVars, unitVars>>

\* ringbuffer_push, line 81: a full buffer makes the call return false at
\* once; the producer does not wait for the consumer to make room
PushWaitsForRoom(next, tl) == next # tl
PushProceeds(next, tl) == TRUE

\* ringbuffer_push, lines 78-81: load tail, return false when full
PushLoadTail ==
    /\ p_pc = "load_tail"
    /\ PushProceeds(RbNext(p_head, capacity), tail)
    /\ p_tail' = tail
    /\ IF RbFull(RbNext(p_head, capacity), tail)
       THEN /\ p_pc' = "idle"
            /\ pushResults' = Append(pushResults, FALSE)
       ELSE /\ p_pc' = "write"
            /\ UNCHANGED pushResults
    /\ UNCHANGED <<rbVars, p_head, p_sample, c_pc, c_tail, c_head, c_out,
                   pushed, popped, popResults, popStartAt>>
    /\ UNCHANGED <<sysVars, aeVars, unitVars>>

\* ringbuffer_push, line 83: write the slot
PushWrite ==
    /\ p_pc = "write"
    /\ buffer' = [buffer EXCEPT ![p_head] = p_sample]
    /\ p_pc' = "publish"
    /\ UNCHANGED <<capacity, head, tail, p_head, p_tail, p_sample,
                   c_pc, c_tail, c_head, c_out,
                   pushed, pushResults, popped, popResults, popStartAt>>
    /\ UNCHANGED <<sysVars, aeVars, unitVars>>

\* ringbuffer_push, lines 85-86: publish head, return true
PushPublish ==
    /\ p_pc = "publish"
    /\ head' = RbNext(p_head, capacity)
    /\ p_pc' = "idle"
    /\ pushed' = Append(pushed, p_sample)
    /\ pushResults' = Append(pushResults, TRUE)
    /\ UNCHANGED <<buffer, capacity, tail, p_head, p_tail, p_sample,
                   c_pc, c_tail, c_head, c_out, popped, popResults, popStartAt>>
    /\ UNCHANGED <<sysVars, aeVars, unitVars>>

\* ringbuffer_pop, line 91: the consumer loads tail
PopLoadTail ==
    /\ c_pc = "idle"
    /\ Len(popResults) < MaxPops
    /\ c_tail' = tail
    /\ c_pc' = "load_head"
    /\ popStartAt' = IF popStartAt = -1 THEN Len(pushResults) ELSE popStartAt
    /\ UNCHANGED <<rbVars, p_pc, p_head, p_tail, p_sample, c_head, c_out,
                   pushed, pushResults, popped, popResults>>
    /\ UNCHANGED <<sysVars, aeVars, unitVars>>

\* ringbuffer_pop, lines 92-94: load head, return false when empty
PopLoadHead ==
    /\ c_pc = "load_head"
    /\ c_head' = head
    /\ IF RbEmpty(c_tail, head)
       THEN /\ c_pc' = "idle"
            /\ popResults' = Append(popResults, FALSE)
       ELSE /\ c_pc' = "copy"
            /\ UNCHANGED popResults
    /\ UNCHANGED <<rbVars, p_pc, p_head, p_tail, p_sample, c_tail, c_out,
                   pushed, pushResults, popped, popStartAt>>
    /\ UNCHANGED <<sysVars, aeVars, unitVars>>

\* ringbuffer_pop, line 96: copy the slot out
PopCopy ==
    /\ c_pc = "copy"
    /\ c_out' = buffer[c_tail]
    /\ c_pc' = "publish"
    /\ UNCHANGED <<rbVars, p_pc, p_head, p_tail, p_sample, c_tail, c_head,
                   pushed, pushResults, popped, popResults, popStartAt>>
    /\ UNCHANGED <<sysVars, aeVars, unitVars>>

\* ringbuffer_pop, lines 98-100: publish tail, return true
PopPublish ==
    /\ c_pc = "publish"
    /\ tail' = RbNext(c_tail, capacity)
    /\ c_pc' = "idle"
    /\ popped' = Append(popped, c_out)
    /\ popResults' = Append(popResults, TRUE)
    /\ UNCHANGED <<buffer, capacity, head, p_pc, p_head, p_tail, p_sample,
                   c_tail, c_head, c_out, pushed, pushResults, popStartAt>>
    /\ UNCHANGED <<sysVars, aeVars, unitVars>>

NextRB ==
    \/ PushLoadHead
    \/ PushLoadTail
    \/ PushWrite
    \/ PushPublish
    \/ PopLoadTail
    \/ PopLoadHead
    \/ PopCopy
    \/ PopPublish

SpecRB == InitRB /\ [][NextRB]_vars

(***************************************************************************)
(* ringbuffer_count, called once at any moment while the producer and the  *)
(* consumer run: its two loads are separate steps.                         *)
(***************************************************************************)
\* ringbuffer_count, line 109: (head - tail) & (rb->capacity - 1) on size_t
RbCountUnmasked(hd, tl, cap) == SizeWrap(hd - tl)
RbCount(hd, tl, cap) == BitAnd(SizeWrap(hd - tl), SizeWrap(cap - 1))

\* the pushes and pops that have returned
Finished == Len(pushResults) + Len(popResults)

\* no push and no pop is in progress
NoCallInProgress == p_pc = "idle" /\ c_pc = "idle"

\* ringbuffer_count, lines 105-106: the caller loads head
CountLoadHead ==
    /\ cnt.pc = "idle"
    /\ ~cnt.called
    /\ cnt' = [cnt EXCEPT !.pc = "load_tail", !.head = head,
                          !.started = IF NoCallInProgress THEN Finished ELSE 0,
                          !.quiet = NoCallInProgress]
    /\ UNCHANGED <<rbVars, spscVars, sysVars, aeVars, countOthers>>

\* ringbuffer_count, lines 107-109: the caller loads tail and returns
CountLoadTail ==
    /\ cnt.pc = "load_tail"
    /\ cnt' = [cnt EXCEPT !.pc = "idle", !.head = 0, !.started = 0,
                          !.quiet = @ /\ NoCallInProgress
                                     /\ cnt.started = Finished,
                          !.result = RbCount(cnt.head, tail, capacity),
                          !.called = TRUE]
    /\ UNCHANGED <<rbVars, spscVars, sysVars, aeVars, countOthers>>

\* the producer and the consumer run until the call has returned
NextCount ==
    \/ ~cnt.called /\ NextRB
    \/ CountLoadHead
    \/ CountLoadTail

SpecCount == InitRB /\ [][NextCount]_vars

(***************************************************************************)
(* ringbuffer_init on its own, for every request a size_t can hold.        *)
(***************************************************************************)
\* sizeof(telemetry_sample_t): seven uint64_t and three float, padded to a
\* multiple of 8
SAMPLE_SIZE == 72

\* calloc(nmemb, size): NULL when nmemb * size does not fit a size_t or
\* when memory is not granted, else a zeroed block of nmemb elements; for
\* nmemb = 0 the C library returns NULL or a block of no elements
calloc(nmemb, size, granted) ==
    IF nmemb * size >= 2 ^ SizeBits \/ ~granted
    THEN [block |-> "null", elements |-> <<>>]
    ELSE [block |-> "allocated",
          elements |-> [i \in 0..(nmemb - 1) |-> ZeroSample]]

\* ringbuffer_init, line 53: if (!rb || capacity == 0) return -1
ZeroRequest(requested) == requested = 0

\* ringbuffer_init, lines 51-65, on rb = [buffer, capacity, head, tail]
ringbuffer_init(rb, requested, granted) ==
    IF ZeroRequest(requested)
    THEN [rb |-> rb, rc |-> -1, block |-> "none"]
    ELSE LET cap == NextPowerOfTwo(requested)
             mem == calloc(cap, SAMPLE_SIZE, granted)
         IN  IF mem.block = "null"
             THEN [rb |-> [rb EXCEPT !.buffer = <<>>], rc |-> -1,
                   block |-> "null"]
             ELSE [rb |-> [buffer |-> mem.elements, capacity |-> cap,
                           head |-> 0, tail |-> 0],
                   rc |-> 0, block |-> "allocated"]

\* every value of the size_t parameter
Requests == 0..(2 ^ SizeBits - 1)

InitRbInit ==
    /\ RbNone
    /\ SpscIdle
    /\ SysInit
    /\ AeNone
    /\ CorrNone
    /\ loop = NoLoop
    /\ ipcs = NoIpc
    /\ conf = NoConf
    /\ pmu = NoPmu
    /\ lg = NoLog
    /\ cnt = NoCount
    /\ sl = NoLoopState
    /\ \E requested \in Requests :
         ri = [NoRbInit EXCEPT !.requested = requested]

\* main, line 197: ringbuffer_init(&rb, capacity)
RbInitCall ==
    /\ ~ri.called
    /\ \E granted \in BOOLEAN :
         LET r == ringbuffer_init([buffer |-> buffer, capacity |-> capacity,
                                   head |-> head, tail |-> tail],
                                  ri.requested, granted)
         IN  /\ buffer' = r.rb.buffer
             /\ capacity' = r.rb.capacity
             /\ head' = r.rb.head
             /\ tail' = r.rb.tail
             /\ ri' = [ri EXCEPT !.called = TRUE, !.rc = r.rc,
                                 !.block = r.block]
    /\ UNCHANGED <<spscVars, sysVars, aeVars, initOthers>>

NextRbInit == RbInitCall

SpecRbInit == InitRbInit /\ [][NextRbInit]_vars

(***************************************************************************)
(* telemetry.c: the sampler thread                                         *)
(***************************************************************************)
\* sampling_loop, lines 105-120: pin_to_cpu, pmu_open
SamplerStart ==
    /\ smp.pc = "start"
    /\ \E rc \in {0, -1} :
         /\ res' = [res EXCEPT !.sampler_pmu = IF rc = 0 THEN "open" ELSE "none"]
         /\ hist' = [hist EXCEPT !.pmu_open_failed = (rc # 0)]
         /\ IF PmuOpenFailed(rc)
            THEN /\ smp' = [smp EXCEPT !.pc = "exited"]
                 /\ eng' = [eng EXCEPT !.thread = "exited"]
            ELSE /\ smp' = [smp EXCEPT !.pc = "enable"]
                 /\ UNCHANGED eng
    /\ UNCHANGED <<rbVars, spscVars, aeVars, unitVars, main, anomaly, g_shutdown>>

\* sampling_loop, lines 122-134: pmu_enable, which fails without a group leader
SamplerEnable ==
    /\ smp.pc = "enable"
    /\ \E rc \in {0, -1} :
         /\ res.sampler_pmu # "open" => rc = -1
         /\ IF rc # 0
            THEN /\ res' = [res EXCEPT !.sampler_pmu =
                                IF @ = "open" THEN "closed" ELSE @]
                 /\ smp' = [smp EXCEPT !.pc = "exited"]
                 /\ eng' = [eng EXCEPT !.thread = "exited"]
            ELSE /\ smp' = [smp EXCEPT !.pc = "guard"]
                 /\ UNCHANGED <<res, eng>>
    /\ UNCHANGED <<rbVars, spscVars, aeVars, unitVars, main, anomaly, g_shutdown, hist>>

\* sampling_loop, line 136: while (eng->running)
SamplerGuard ==
    /\ smp.pc = "guard"
    /\ smp' = [smp EXCEPT !.pc = IF eng.running THEN "tick" ELSE "close"]
    /\ UNCHANGED <<rbVars, spscVars, aeVars, unitVars, main, res, eng, anomaly, g_shutdown, hist>>

\* sampling_loop, lines 137-161: one tick whose pmu_read failed
SamplerTickReadFailed ==
    /\ smp.pc = "tick"
    /\ smp' = [smp EXCEPT !.pc = "guard"]
    /\ UNCHANGED <<rbVars, spscVars, aeVars, unitVars, main, res, eng, anomaly, g_shutdown, hist>>

\* sampling_loop, lines 137-161: one tick whose pmu_read succeeded
SamplerTick ==
    /\ smp.pc = "tick"
    /\ smp.reads < MaxReads
    /\ \E inc \in 1..MaxInc :
         LET cur == HwReading(smp.hw + inc)
             sample == ComputeDerived(smp.reads + 1, Delta(cur, smp.prev))
             live == res.rb_block = "live"
             full == RbFull(RbNext(head, capacity), tail)
             pushOk == smp.have_prev /\ live /\ ~full
         IN  /\ IF pushOk
                THEN /\ buffer' = [buffer EXCEPT ![head] = sample]
                     /\ head' = RbNext(head, capacity)
                ELSE UNCHANGED <<buffer, head>>
             /\ UNCHANGED <<capacity, tail>>
             /\ smp' = [smp EXCEPT !.pc = "guard",
                                   !.prev = NewPrev(smp.prev, cur, pushOk),
                                   !.have_prev = TRUE,
                                   !.reads = @ + 1,
                                   !.hw = @ + inc]
             /\ hist' =
                  [hist EXCEPT
                     !.last_ok_read = cur,
                     !.use_after_free = @ \/ (smp.have_prev /\ ~live),
                     !.pushes = IF pushOk THEN @ + 1 ELSE @,
                     !.drops = IF smp.have_prev /\ live /\ full THEN @ + 1 ELSE @,
                     !.dropped_since_push =
                        IF pushOk THEN FALSE ELSE @ \/ (smp.have_prev /\ live /\ full),
                     !.last_pushed_read =
                        IF pushOk \/ ~smp.have_prev THEN cur ELSE @,
                     !.last_push =
                        IF pushOk
                        THEN [valid |-> TRUE,
                              after_drop |-> hist.dropped_since_push,
                              counters |-> SampleCounters(sample),
                              cur |-> cur,
                              prev_read |-> hist.last_ok_read,
                              prev_pushed |-> hist.last_pushed_read]
                        ELSE @]
    /\ UNCHANGED <<spscVars, aeVars, unitVars, main, res, eng, anomaly, g_shutdown>>

\* sampling_loop, lines 164-166: pmu_disable, pmu_close, return
SamplerClose ==
    /\ smp.pc = "close"
    /\ res' = [res EXCEPT !.sampler_pmu = "closed"]
    /\ smp' = [smp EXCEPT !.pc = "exited"]
    /\ eng' = [eng EXCEPT !.thread = "exited"]
    /\ UNCHANGED <<rbVars, spscVars, aeVars, unitVars, main, anomaly, g_shutdown, hist>>

(***************************************************************************)
(* main.c: the signal handler and main                                     *)
(***************************************************************************)
\* signal_handler, once sigaction installed it
SignalHandler ==
    /\ res.handler
    /\ main.pc # "done"
    /\ g_shutdown' = 1
    /\ hist' = [hist EXCEPT !.cancel_in_learn_loop =
                   @ \/ (g_shutdown = 0 /\ main.pc \in {"learn_guard", "learn_body"})]
    /\ UNCHANGED <<rbVars, spscVars, aeVars, unitVars, main, res, eng, smp, anomaly>>

\* EXIT_FAILURE, EXIT_SUCCESS
ExitSuccessToo == 1 - 1
ExitFailure == 1
ExitSuccess == 0

\* main on its way out: the calls in path, then return status
Leave(path, status) ==
    [main EXCEPT !.pc = "exiting", !.lifecycle = "SHUTTING_DOWN",
                 !.todo = path, !.status = status]

\* main, lines 127-145: config_set_defaults, config_parse_args
ConfigParseArgs ==
    /\ main.pc = "config"
    /\ \E rc \in {0, -1}, c \in Configs :
         IF rc # 0
         THEN /\ main' = Leave(ConfigFailPath, ExitFailure)
              /\ hist' = [hist EXCEPT !.exit_via = "config"]
         ELSE /\ main' = [main EXCEPT !.cfg = c,
                             !.pc = IF c.pmu_test THEN "pmu_test" ELSE "sigaction"]
              /\ UNCHANGED hist
    /\ UNCHANGED <<rbVars, spscVars, aeVars, unitVars, res, eng, smp, anomaly, g_shutdown>>

\* main, lines 148-172: the PMU test mode
PmuTest ==
    /\ main.pc = "pmu_test"
    /\ \E outcome \in {"open_failed", "read_failed", "ok"} :
         /\ res' = [res EXCEPT !.test_pmu =
                       IF outcome = "open_failed" THEN "none" ELSE "closed"]
         /\ main' = Leave(PmuTestPath,
                          IF outcome = "ok" THEN ExitSuccess ELSE ExitFailure)
    /\ hist' = [hist EXCEPT !.exit_via = "pmu_test"]
    /\ UNCHANGED <<rbVars, spscVars, aeVars, unitVars, eng, smp, anomaly, g_shutdown>>

\* main, lines 175-180: sigaction(SIGINT), sigaction(SIGTERM)
Sigaction ==
    /\ main.pc = "sigaction"
    /\ res' = [res EXCEPT !.handler = TRUE]
    /\ main' = [main EXCEPT !.pc = "logger_init"]
    /\ UNCHANGED <<rbVars, spscVars, aeVars, unitVars, eng, smp, anomaly, g_shutdown, hist>>

\* main, lines 183-193: logger_init, which fails when fopen fails
LoggerInit ==
    /\ main.pc = "logger_init"
    /\ \E rc \in {0, -1} :
         /\ rc # 0 => main.cfg.log_to_file
         /\ IF rc # 0
            THEN /\ main' = Leave(LoggerInitFailPath, ExitFailure)
                 /\ hist' = [hist EXCEPT !.exit_via = "logger_init"]
                 /\ UNCHANGED res
            ELSE /\ main' = [main EXCEPT !.pc = "ringbuffer_init"]
                 /\ res' = [res EXCEPT !.log_file =
                               IF main.cfg.log_to_file THEN "open" ELSE "none"]
                 /\ UNCHANGED hist
    /\ UNCHANGED <<rbVars, spscVars, aeVars, unitVars, eng, smp, anomaly, g_shutdown>>

\* main, lines 196-201: ringbuffer_init
RingbufferInit ==
    /\ main.pc = "ringbuffer_init"
    /\ \E calloc_ok \in BOOLEAN :
         IF main.cfg.ringbuffer_capacity = 0 \/ ~calloc_ok
         THEN /\ main' = Leave(RingbufferInitFailPath, ExitFailure)
              /\ hist' = [hist EXCEPT !.exit_via = "ringbuffer_init"]
              /\ UNCHANGED <<rbVars, res>>
         ELSE /\ capacity' = NextPowerOfTwo(main.cfg.ringbuffer_capacity)
              /\ buffer' = [i \in 0..(NextPowerOfTwo(main.cfg.ringbuffer_capacity) - 1)
                              |-> ZeroSample]
              /\ head' = 0
              /\ tail' = 0
              /\ res' = [res EXCEPT !.rb_block = "live"]
              /\ main' = [main EXCEPT !.pc = "telemetry_start"]
              /\ UNCHANGED hist
    /\ UNCHANGED <<spscVars, aeVars, unitVars, eng, smp, anomaly, g_shutdown>>

\* main, lines 204-216: telemetry_init, telemetry_start
TelemetryStart ==
    /\ main.pc = "telemetry_start"
    /\ \E rc \in {0, -1} :
         IF rc # 0
         THEN /\ main' = Leave(TelemetryStartFailPath, ExitFailure)
              /\ hist' = [hist EXCEPT !.exit_via = "telemetry_start"]
              /\ UNCHANGED <<eng, smp>>
         ELSE /\ eng' = [eng EXCEPT !.running = TRUE, !.thread = "running"]
              /\ smp' = [smp EXCEPT !.pc = "start"]
              /\ main' = [main EXCEPT !.pc = "anomaly_init"]
              /\ UNCHANGED hist
    /\ UNCHANGED <<rbVars, spscVars, aeVars, unitVars, res, anomaly, g_shutdown>>

\* main, lines 222-229: anomaly_init
AnomalyInit ==
    /\ main.pc = "anomaly_init"
    /\ \E rc \in {0, -1} :
         IF rc # 0
         THEN /\ main' = Leave(AnomalyInitFailPath, ExitFailure)
              /\ hist' = [hist EXCEPT !.exit_via = "anomaly_init"]
              /\ UNCHANGED <<res, anomaly>>
         ELSE /\ res' = [res EXCEPT !.anomaly = "live"]
              /\ anomaly' = [n |-> 0, ready |-> FALSE]
              /\ main' = [main EXCEPT !.pc = "ipc_init"]
              /\ UNCHANGED hist
    /\ UNCHANGED <<rbVars, spscVars, aeVars, unitVars, eng, smp, g_shutdown>>

\* main, lines 232-253: correlation_init, ipc_socket_init
IpcSocketInit ==
    /\ main.pc = "ipc_init"
    /\ \E fd \in {-1, 3} :
         /\ ~main.cfg.enable_ml_output => fd = -1
         /\ main' = [main EXCEPT !.ml_sock_fd = fd, !.pc = "learn_guard"]
         /\ res' = [res EXCEPT !.ipc_sock = IF fd >= 0 THEN "open" ELSE "none"]
    /\ UNCHANGED <<rbVars, spscVars, aeVars, unitVars, eng, smp, anomaly, g_shutdown, hist>>

\* main, line 255: the guard of the learning loop
LearnGuard ==
    /\ main.pc = "learn_guard"
    /\ main' = IF LearnLoopGuard(g_shutdown)
               THEN [main EXCEPT !.pc = "learn_body", !.lifecycle = "LEARNING"]
               ELSE [main EXCEPT !.pc = "post_learn"]
    /\ UNCHANGED <<rbVars, spscVars, aeVars, unitVars, res, eng, smp, anomaly, g_shutdown, hist>>

\* main, lines 256-257: the learning deadline has passed
LearnDeadline ==
    /\ main.pc = "learn_body"
    /\ main' = [main EXCEPT !.pc = "post_learn"]
    /\ hist' = [hist EXCEPT !.learn_deadline = TRUE]
    /\ UNCHANGED <<rbVars, spscVars, aeVars, unitVars, res, eng, smp, anomaly, g_shutdown>>

\* ipc_socket_send (anomaly.c, lines 359-384): 0, or -1 when send failed
IpcSendResults == {0, -1}

\* main, lines 262 and 316: if (ml_sock_fd >= 0)
MirrorOpenAlways(fd) == TRUE
MirrorOpen(fd) == fd >= 0

\* main, lines 262-263 and 316-317: ipc_socket_send(ml_sock_fd, &sample),
\* its return value dropped
Mirror(h, sample, rc) ==
    IF MirrorOpen(main.ml_sock_fd)
    THEN [h EXCEPT !.sent = Append(@, sample.timestamp_ns),
                   !.send_failed = @ \/ rc < 0]
    ELSE h

\* main, lines 259-268: ringbuffer_pop, then anomaly_learn or a short sleep
LearnBody ==
    /\ main.pc = "learn_body"
    /\ IF RbEmpty(tail, head)
       THEN UNCHANGED <<tail, anomaly, hist>>
            /\ main' = [main EXCEPT !.pc = "learn_guard"]
       ELSE \E rc \in IpcSendResults :
            LET sample == buffer[tail]
            IN  /\ tail' = RbNext(tail, capacity)
                /\ anomaly' = [anomaly EXCEPT !.n = @ + 1]
                /\ main' = [main EXCEPT !.pc = "learn_guard", !.learn_samples = @ + 1]
                /\ hist' = Mirror([hist EXCEPT
                                     !.popped = Append(@, sample.timestamp_ns),
                                     !.learned = Append(@, sample.timestamp_ns)],
                                  sample, rc)
    /\ UNCHANGED <<buffer, capacity, head, spscVars, aeVars, unitVars, res, eng, smp, g_shutdown>>

\* main, lines 271-278: if (g_shutdown) goto cleanup
PostLearn ==
    /\ main.pc = "post_learn"
    /\ IF CancelledAfterLearning(g_shutdown)
       THEN /\ main' = Leave(CleanupPath, ExitSuccess)
            /\ hist' = [hist EXCEPT !.exit_via = "cleanup", !.saw_shutdown_276 = "yes"]
       ELSE /\ main' = [main EXCEPT !.pc = "zero_check"]
            /\ hist' = [hist EXCEPT !.saw_shutdown_276 = "no"]
    /\ UNCHANGED <<rbVars, spscVars, aeVars, unitVars, res, eng, smp, anomaly, g_shutdown>>

\* main, lines 280-288: no sample was learned
ZeroCheck ==
    /\ main.pc = "zero_check"
    /\ IF NoLearnSamples(main.learn_samples)
       THEN /\ main' = Leave(ZeroSamplesPath, ExitFailure)
            /\ hist' = [hist EXCEPT !.exit_via = "zero_samples"]
       ELSE /\ main' = [main EXCEPT !.pc = "finalize"]
            /\ UNCHANGED hist
    /\ UNCHANGED <<rbVars, spscVars, aeVars, unitVars, res, eng, smp, anomaly, g_shutdown>>

\* main, lines 290-292: anomaly_finalize_baseline (anomaly.c, lines 93-124)
FinalizeBaseline ==
    /\ main.pc = "finalize"
    /\ anomaly' = IF anomaly.n < 1 THEN anomaly ELSE [anomaly EXCEPT !.ready = TRUE]
    /\ hist' = [hist EXCEPT !.finalize_calls = @ + 1]
    /\ main' = [main EXCEPT !.pc = "drop_privileges"]
    /\ UNCHANGED <<rbVars, spscVars, aeVars, unitVars, res, eng, smp, g_shutdown>>

\* text is a sequence of characters
Digits == <<"0", "1", "2", "3", "4", "5", "6", "7", "8", "9">>
IsDigit(c) == \E i \in 1..10 : Digits[i] = c
DigitOf(c) == (CHOOSE i \in 1..10 : Digits[i] = c) - 1

\* strtoul(text, NULL, 10) on text without leading space or sign: the
\* digits up to the first other character
RECURSIVE StrToUlFrom(_, _)
StrToUlFrom(text, acc) ==
    IF text = <<>> \/ ~IsDigit(Head(text)) THEN acc
    ELSE StrToUlFrom(Tail(text), 10 * acc + DigitOf(Head(text)))
StrToUl(text) == StrToUlFrom(text, 0)

\* drop_privileges, line 105: if (geteuid() != 0) return
Root(euid) == euid = 0

\* drop_privileges, line 110: if (sudo_uid && sudo_gid), each getenv result
\* <<>> for NULL and <<text>> for a string
HasSudoIdsNever(sudo_uid, sudo_gid) == FALSE
HasSudoIds(sudo_uid, sudo_gid) == sudo_uid # <<>> /\ sudo_gid # <<>>

\* geteuid() and getegid() of the process main starts as, the values of
\* SUDO_UID and SUDO_GID in its environment, the results of setgid and setuid
Euids == {0, 1000}
SudoUids == {<<>>, << <<"1", "0", "0", "0">> >>}
SudoGids == {<<>>, << <<"1", "0", "0">> >>}
SetIdResults == {0, -1}

\* drop_privileges, lines 103-123: the identity after the call.  setgid is
\* called before setuid, the result of each is only reported with perror,
\* and a call that succeeds as root sets the effective id.
drop_privileges(cred, euid, sudo_uid, sudo_gid, setgid_rc, setuid_rc) ==
    IF ~Root(euid)
    THEN [cred EXCEPT !.euid = euid, !.egid = euid]
    ELSE IF HasSudoIds(sudo_uid, sudo_gid)
    THEN LET uid == StrToUl(sudo_uid[1])
             gid == StrToUl(sudo_gid[1])
         IN  [cred EXCEPT !.egid = IF setgid_rc = 0 THEN gid ELSE euid,
                          !.euid = IF setuid_rc = 0 THEN uid ELSE euid,
                          !.setgid_calls = @ + 1,
                          !.setuid_calls = @ + 1,
                          !.order = @ \o <<"setgid", "setuid">>]
    ELSE [cred EXCEPT !.euid = euid, !.egid = euid]

\* how the process was launched: by a plain user, as root, or as root
\* through sudo, which exports SUDO_UID and SUDO_GID
Launched(euid, sudo_uid, sudo_gid) ==
    IF euid # 0 THEN "user"
    ELSE IF sudo_uid = <<>> \/ sudo_gid = <<>> THEN "root" ELSE "sudo"

\* main, lines 295-301: drop_privileges
DropPrivileges ==
    /\ main.pc = "drop_privileges"
    /\ \E euid \in Euids, sudo_uid \in SudoUids, sudo_gid \in SudoGids,
          setgid_rc \in SetIdResults, setuid_rc \in SetIdResults :
         hist' = [hist EXCEPT !.priv_drops = @ + 1,
                              !.launched = Launched(euid, sudo_uid, sudo_gid),
                              !.cred = drop_privileges(@, euid, sudo_uid, sudo_gid,
                                                       setgid_rc, setuid_rc)]
    /\ main' = [main EXCEPT !.pc = "detect_guard"]
    /\ UNCHANGED <<rbVars, spscVars, aeVars, unitVars, res, eng, smp, anomaly, g_shutdown>>

\* main, line 303: the guard of the detection loop, then cleanup
DetectGuard ==
    /\ main.pc = "detect_guard"
    /\ IF DetectLoopGuard(g_shutdown)
       THEN /\ main' = [main EXCEPT !.pc = "detect_body", !.lifecycle = "DETECTING"]
            /\ UNCHANGED hist
       ELSE /\ main' = Leave(CleanupPath, ExitSuccess)
            /\ hist' = [hist EXCEPT !.exit_via = "cleanup"]
    /\ UNCHANGED <<rbVars, spscVars, aeVars, unitVars, res, eng, smp, anomaly, g_shutdown>>

\* main, lines 304-379: ringbuffer_pop, then anomaly_detect and the alert
DetectBody ==
    /\ main.pc = "detect_body"
    /\ IF RbEmpty(tail, head)
       THEN UNCHANGED <<tail, hist>>
            /\ main' = [main EXCEPT !.pc = "detect_guard"]
       ELSE \E flagged \in BOOLEAN, rc \in IpcSendResults :
            LET sample == buffer[tail]
            IN  /\ tail' = RbNext(tail, capacity)
                /\ main' = [main EXCEPT !.pc = "detect_guard",
                                        !.total_samples = @ + 1,
                                        !.anomaly_samples = IF flagged THEN @ + 1 ELSE @]
                /\ hist' = Mirror([hist EXCEPT
                                     !.detect_calls = @ + 1,
                                     !.alerts = IF flagged THEN @ + 1 ELSE @,
                                     !.popped = Append(@, sample.timestamp_ns),
                                     !.detected = Append(@, sample.timestamp_ns)],
                                  sample, rc)
    /\ UNCHANGED <<buffer, capacity, head, spscVars, aeVars, unitVars, res, eng, smp, anomaly, g_shutdown>>

\* the next call of main on its way out
NextCall == IF main.pc = "exiting" /\ main.todo # <<>> THEN Head(main.todo) ELSE "none"

\* ipc_socket_close(ml_sock_fd)
IpcSocketClose ==
    /\ NextCall = "ipc_socket_close"
    /\ res' = [res EXCEPT !.ipc_sock =
                  IF main.ml_sock_fd >= 0 THEN "closed" ELSE @]
    /\ main' = [main EXCEPT !.todo = Tail(@)]
    /\ UNCHANGED <<rbVars, spscVars, aeVars, unitVars, eng, smp, anomaly, g_shutdown, hist>>

\* telemetry_stop, line 204: eng->running = false
TelemetryStop ==
    /\ NextCall = "telemetry_stop"
    /\ eng' = [eng EXCEPT !.running = FALSE]
    /\ main' = [main EXCEPT !.todo = <<"pthread_join">> \o Tail(@)]
    /\ UNCHANGED <<rbVars, spscVars, aeVars, unitVars, res, smp, anomaly, g_shutdown, hist>>

\* telemetry_stop, line 205: pthread_join
PthreadJoin ==
    /\ NextCall = "pthread_join"
    /\ ThreadTerminated(eng.thread)
    /\ eng' = [eng EXCEPT !.joined = TRUE]
    /\ main' = [main EXCEPT !.todo = Tail(@)]
    /\ UNCHANGED <<rbVars, spscVars, aeVars, unitVars, res, smp, anomaly, g_shutdown, hist>>

\* anomaly_destroy
AnomalyDestroy ==
    /\ NextCall = "anomaly_destroy"
    /\ res' = [res EXCEPT !.anomaly = "freed"]
    /\ main' = [main EXCEPT !.todo = Tail(@)]
    /\ UNCHANGED <<rbVars, spscVars, aeVars, unitVars, eng, smp, anomaly, g_shutdown, hist>>

\* ringbuffer_destroy
RingbufferDestroy ==
    /\ NextCall = "ringbuffer_destroy"
    /\ res' = [res EXCEPT !.rb_block = "freed"]
    /\ buffer' = <<>>
    /\ capacity' = 0
    /\ main' = [main EXCEPT !.todo = Tail(@)]
    /\ UNCHANGED <<head, tail, spscVars, aeVars, unitVars, eng, smp, anomaly, g_shutdown, hist>>

\* logger_destroy
LoggerDestroy ==
    /\ NextCall = "logger_destroy"
    /\ res' = [res EXCEPT !.log_file = IF @ = "open" THEN "closed" ELSE @]
    /\ main' = [main EXCEPT !.todo = Tail(@)]
    /\ UNCHANGED <<rbVars, spscVars, aeVars, unitVars, eng, smp, anomaly, g_shutdown, hist>>

\* return from main
Return ==
    /\ main.pc = "exiting"
    /\ main.todo = <<>>
    /\ main' = [main EXCEPT !.pc = "done", !.lifecycle = "DONE",
                            !.exit_code = main.status]
    /\ UNCHANGED <<rbVars, spscVars, aeVars, unitVars, res, eng, smp, anomaly, g_shutdown, hist>>

Init == RbNone /\ SpscIdle /\ SysInit /\ AeNone /\ UnitNone

Next ==
    \/ SamplerStart
    \/ SamplerEnable
    \/ SamplerGuard
    \/ SamplerTickReadFailed
    \/ SamplerTick
    \/ SamplerClose
    \/ SignalHandler
    \/ ConfigParseArgs
    \/ PmuTest
    \/ Sigaction
    \/ LoggerInit
    \/ RingbufferInit
    \/ TelemetryStart
    \/ AnomalyInit
    \/ IpcSocketInit
    \/ LearnGuard
    \/ LearnDeadline
    \/ LearnBody
    \/ PostLearn
    \/ ZeroCheck
    \/ FinalizeBaseline
    \/ DropPrivileges
    \/ DetectGuard
    \/ DetectBody
    \/ IpcSocketClose
    \/ TelemetryStop
    \/ PthreadJoin
    \/ AnomalyDestroy
    \/ RingbufferDestroy
    \/ LoggerDestroy
    \/ Return

Spec == Init /\ [][Next]_vars

\* the steps of the main thread and of the sampler thread
MainStep ==
    \/ ConfigParseArgs \/ PmuTest \/ Sigaction \/ LoggerInit \/ RingbufferInit
    \/ TelemetryStart \/ AnomalyInit \/ IpcSocketInit
    \/ LearnGuard \/ LearnDeadline \/ LearnBody \/ PostLearn \/ ZeroCheck
    \/ FinalizeBaseline \/ DropPrivileges \/ DetectGuard \/ DetectBody
    \/ IpcSocketClose \/ TelemetryStop \/ PthreadJoin \/ AnomalyDestroy
    \/ RingbufferDestroy \/ LoggerDestroy \/ Return

SamplerStep ==
    \/ SamplerStart \/ SamplerEnable \/ SamplerGuard
    \/ SamplerTickReadFailed \/ SamplerTick \/ SamplerClose

\* the same program under a scheduler that lets each thread run again and
\* again; signals may or may not arrive
SpecFair == Init /\ [][Next]_vars /\ WF_vars(MainStep) /\ WF_vars(SamplerStep)

(***************************************************************************)
(* The anomaly engine driven through its interface: anomaly_init, then any *)
(* sequence of anomaly_learn, anomaly_finalize_baseline and                *)
(* anomaly_detect.                                                         *)
(***************************************************************************)
\* the z_threshold values of the engines driven in any call order: -1, 1
CallOrderThresholds == {<<-1, 0>>, <<1, 0>>}

\* anomaly_init(z_threshold, burst_window) returned 0
InitAnomaly ==
    /\ RbNone
    /\ SpscIdle
    /\ SysInit
    /\ \E z \in CallOrderThresholds, w \in 0..MaxWindow : ae = anomaly_init(z, w)
    /\ result = ZeroResult
    /\ ah = NoCalls
    /\ UnitNone

\* anomaly_learn(&ae, &s)
AnomalyLearnCall ==
    /\ ~ah.trapped
    /\ ah.learns < MaxLearn
    /\ \E s \in Samples :
         /\ ae' = anomaly_learn(ae, s)
         /\ ah' = [ah EXCEPT !.learns = @ + 1, !.learned = @ \cup {s},
                             !.learned_since = TRUE]
    /\ UNCHANGED <<rbVars, spscVars, sysVars, unitVars, result>>

\* anomaly_finalize_baseline(&ae)
AnomalyFinalizeCall ==
    /\ ~ah.trapped
    /\ ah.finalizes < MaxFinalize
    /\ ae' = anomaly_finalize_baseline(ae)
    /\ ah' = [ah EXCEPT !.finalizes = @ + 1,
                        !.finalized = @ \/ ah.learns >= 1,
                        !.learned_since = FALSE,
                        !.refinalized = @ \/ (/\ ah.finalizes >= 1
                                              /\ ah.learns >= 1
                                              /\ ~ah.learned_since),
                        !.flat = IF ah.learns >= 1
                                 THEN Cardinality(ah.learned) = 1 ELSE @]
    /\ UNCHANGED <<rbVars, spscVars, sysVars, unitVars, result>>

\* anomaly_detect, line 172: the early return
BaselineMissingNever(ready) == FALSE
BaselineMissing(ready) == ~ready

\* the last n elements of a sequence
LastN(seq, n) ==
    IF Len(seq) <= n THEN seq ELSE SubSeq(seq, Len(seq) - n + 1, Len(seq))

\* anomaly_detect(&ae, &s, &result).  With recent_cap = 0 lines 205-206
\* store outside the block and take a remainder by zero: the division
\* either traps, which ends the process, or leaves its dividend.
DetectOnly(s, trap) ==
    LET next_idx == IF ae.recent_cap = 0 THEN ae.recent_idx + 1
                    ELSE (ae.recent_idx + 1) % ae.recent_cap
        d == DetectReady(ae, s, next_idx)
        called == [ah EXCEPT !.detects = @ + 1]
    IN  /\ trap => (ae.baseline.ready /\ ae.recent_cap = 0)
        /\ IF BaselineMissing(ae.baseline.ready)
           THEN /\ result' = ZeroResult
                /\ ae' = ae
                /\ ah' = called
           ELSE IF trap
           THEN /\ result' = ZeroResult
                /\ ae' = ae
                /\ ah' = [called EXCEPT !.trapped = TRUE]
           ELSE /\ result' = d.result
                /\ ae' = d.eng
                /\ ah' = [called EXCEPT
                            !.run = IF BitAnd(d.result.anomaly_flags, 7) # 0
                                    THEN @ + 1 ELSE 0,
                            !.fed = LastN(Append(@, s.cache_miss_rate),
                                          ae.burst_window),
                            !.last = s,
                            !.same = @ /\ s \in ah.learned]
        /\ UNCHANGED <<rbVars, spscVars, sysVars>>

\* anomaly_detect called on its own
Detect(s, trap) == DetectOnly(s, trap) /\ UNCHANGED unitVars

AnomalyDetectCall ==
    /\ ~ah.trapped
    /\ ah.detects < MaxDetect
    /\ \E s \in Samples, trap \in BOOLEAN : Detect(s, trap)

NextAnomaly ==
    \/ AnomalyLearnCall
    \/ AnomalyFinalizeCall
    \/ AnomalyDetectCall

SpecAnomaly == InitAnomaly /\ [][NextAnomaly]_vars

(***************************************************************************)
(* The detection phase of main: the engine has learned, its baseline is    *)
(* finalized, and every sample popped goes to anomaly_detect.              *)
(***************************************************************************)
\* the samples of a learning phase
LearningRuns == {<<Quiet, CacheHot, BranchHot, Stalled>>, <<Quiet, Quiet, Quiet>>}

RECURSIVE LearnAll(_, _)
LearnAll(e, run) ==
    IF run = <<>> THEN e ELSE LearnAll(anomaly_learn(e, Head(run)), Tail(run))

\* anomaly_init, the learning loop, anomaly_finalize_baseline
StreamReady ==
    /\ \E z \in Thresholds, w \in 0..MaxWindow, run \in LearningRuns :
         /\ ae = anomaly_finalize_baseline(LearnAll(anomaly_init(z, w), run))
         /\ ah = [NoCalls EXCEPT !.learns = Len(run), !.finalizes = 1,
                                 !.learned = {run[i] : i \in 1..Len(run)},
                                 !.finalized = TRUE,
                                 !.flat = \A i \in 1..Len(run) : run[i] = run[1]]
    /\ result = ZeroResult

InitStream ==
    /\ RbNone
    /\ SpscIdle
    /\ SysInit
    /\ StreamReady
    /\ UnitNone

\* main, lines 313-314: anomaly_detect on the sample popped
StreamDetect ==
    /\ ~ah.trapped
    /\ ah.detects < MaxStream
    /\ \E s \in Samples, trap \in BOOLEAN : Detect(s, trap)

NextStream == StreamDetect

SpecStream == InitStream /\ [][NextStream]_vars

(***************************************************************************)
(* The correlation engine driven through its interface: correlation_init,  *)
(* then any sequence of correlation_update and correlation_decay.          *)
(***************************************************************************)
\* correlation_init(decay_factor, window_sec)
InitCorr ==
    /\ RbNone
    /\ SpscIdle
    /\ SysInit
    /\ AeNone
    /\ \E d \in DecayFactors, w \in Windows : corr = correlation_init(d, w)
    /\ ch = NoCorrCalls
    /\ OthersNone

\* correlation_update(&corr, pid, 0, score, timestamp_ns)
CorrUpdate(pid, score, timestamp_ns) ==
    /\ corr' = correlation_update(corr, pid, 0, score, timestamp_ns)
    /\ ch' = [calls |-> ch.calls + 1, op |-> "update", pid |-> pid,
              score |-> score, time |-> timestamp_ns,
              streak |-> IF ch.op = "update" /\ ch.pid = pid /\ ch.score = score
                         THEN ch.streak + 1 ELSE 1,
              snapped |-> FALSE,
              made |-> LET f == find_or_create(corr, pid, 0)
                       IN  IF f.eng = corr THEN "none"
                           ELSE IF f.eng.count > corr.count THEN "new"
                           ELSE "reused"]
    /\ UNCHANGED <<rbVars, spscVars, sysVars, aeVars, corrOthers>>

\* correlation_decay(&corr, now_ns).  main reads now_ns from the clock of
\* the sample timestamps, after the samples it has given to
\* correlation_update (main, lines 304-362), so no entry was seen after now_ns.
CorrDecay(now_ns) ==
    /\ \A i \in DOMAIN corr.entries : corr.entries[i].last_seen_ns <= now_ns
    /\ corr' = correlation_decay(corr, now_ns)
    /\ ch' = [calls |-> ch.calls + 1, op |-> "decay", pid |-> 0,
              score |-> FloatZero, time |-> now_ns, streak |-> 0,
              snapped |-> \E i \in DOMAIN corr.entries :
                             /\ corr.entries[i].anomaly_score # FloatZero
                             /\ corr'.entries[i].active
                             /\ corr'.entries[i].anomaly_score = FloatZero,
              made |-> "none"]
    /\ UNCHANGED <<rbVars, spscVars, sysVars, aeVars, corrOthers>>

CorrUpdateCall ==
    /\ ch.calls < MaxCorrCalls
    /\ \E pid \in CorrPids, score \in CorrScores, t \in CorrTimes :
         CorrUpdate(pid, score, t)

CorrDecayCall ==
    /\ ch.calls < MaxCorrCalls
    /\ \E now \in CorrTimes : CorrDecay(now)

NextCorr ==
    \/ CorrUpdateCall
    \/ CorrDecayCall

SpecCorr == InitCorr /\ [][NextCorr]_vars

(***************************************************************************)
(* The correlation engine once many processes were seen: its table holds   *)
(* CORR_MAX_TRACKED entries or a few less.                                 *)
(***************************************************************************)
\* the numbers of processes seen before, and the ones seen a second earlier
\* than the others
FullCounts == {CORR_MAX_TRACKED - 2, CORR_MAX_TRACKED - 1, CORR_MAX_TRACKED}
StalePids == {{}, {2}, {1, CORR_MAX_TRACKED - 1}}

\* the pids given to the engine: two seen before, two never seen
FullPids == {1, 2, 300, 301}

\* the engine after correlation_update for the pids 1..n in turn, each once
\* with score 0, those of stale at time 0 and the others a second later:
\* every call appends (lines 94-100) and updates its entry (lines 112-118)
Seen(engine, n, stale) ==
    [engine EXCEPT
       !.entries = [i \in 0..(n - 1) |->
                      [NewEntry(i + 1, 0) EXCEPT
                         !.total_samples = 1,
                         !.last_seen_ns = IF (i + 1) \in stale THEN 0 ELSE NsPerSec,
                         !.anomaly_score = Smooth(FloatZero, FloatZero)]],
       !.count = n]

\* correlation_init, the updates of Seen, then one correlation_decay that
\* finds the stale entries older than the window
InitCorrFull ==
    /\ RbNone
    /\ SpscIdle
    /\ SysInit
    /\ AeNone
    /\ \E d \in DecayFactors, w \in Windows, n \in FullCounts, stale \in StalePids :
         corr = correlation_decay(Seen(correlation_init(d, w), n, stale),
                                  NsPerSec + w)
    /\ ch = NoCorrCalls
    /\ OthersNone

FullUpdateCall ==
    /\ ch.calls < MaxFullCalls
    /\ \E pid \in FullPids, t \in {NsPerSec, 2 * NsPerSec + 1} :
         CorrUpdate(pid, FloatOne, t)

FullDecayCall ==
    /\ ch.calls < MaxFullCalls
    /\ \E now \in {NsPerSec, 2 * NsPerSec + 1} : CorrDecay(now)

NextCorrFull ==
    \/ FullUpdateCall
    \/ FullDecayCall

SpecCorrFull == InitCorrFull /\ [][NextCorrFull]_vars

(***************************************************************************)
(* The detection loop of main: every sample popped goes to anomaly_detect, *)
(* a flagged one to correlation_update and logger_alert, and the           *)
(* correlation engine decays once more than a second has passed.           *)
(***************************************************************************)
\* main, lines 324-327: 0.8 to the precision of a double, and 0.5
CriticalAbove == <<51, -6>>
WarningAbove == <<1, -1>>

\* main, line 321: result.anomaly_flags != 0
FlaggedAlways(flags) == TRUE
Flagged(flags) == flags # ANOMALY_NONE

\* main, lines 324-331: the level of the alert
AlertLevel(r) ==
    IF FLess(CriticalAbove, r.composite_score)
       \/ BitAnd(r.anomaly_flags, ANOMALY_BURST_PATTERN) # 0
    THEN "CRITICAL"
    ELSE IF FLess(WarningAbove, r.composite_score) THEN "WARNING"
    ELSE "INFO"

\* main, line 336: cfg.target_pid > 0 ? cfg.target_pid : getpid()
AlertPid == 1

\* the time between two samples: a nanosecond or 0.4 s
SamplePeriods == {1, 4 * (NsPerSec \div 10)}

\* main, line 233, correlation_init; lines 300-301
InitLoop ==
    /\ RbNone
    /\ SpscIdle
    /\ SysInit
    /\ StreamReady
    /\ corr = correlation_init(<<61, -6>>, 1)
    /\ ch = NoCorrCalls
    /\ OthersNone

\* main, lines 304-365: one pass of the detection loop on the sample s taken
\* at the time t; the clock read at line 361 is at t.  A trap in
\* anomaly_detect ends the process.
LoopPass(s, trap, t) ==
    /\ DetectOnly(s, trap)
    /\ LET r == result'
           flagged == Flagged(r.anomaly_flags)
           updated == IF flagged
                      THEN correlation_update(corr, AlertPid, 0,
                                              ToFloat(r.composite_score), t)
                      ELSE corr
           decay == t - loop.last_decay_ns > NsPerSec
       IN  IF ah'.trapped
           THEN UNCHANGED <<corr, loop>>
           ELSE /\ corr' = IF decay THEN correlation_decay(updated, t) ELSE updated
                /\ loop' = [now |-> t,
                            last_decay_ns |-> IF decay THEN t ELSE loop.last_decay_ns,
                            total_samples |-> loop.total_samples + 1,
                            anomaly_samples |-> IF flagged THEN loop.anomaly_samples + 1
                                                ELSE loop.anomaly_samples,
                            raised |-> flagged,
                            updated |-> flagged,
                            level |-> IF flagged THEN AlertLevel(r) ELSE "INFO",
                            score |-> r.composite_score,
                            flags |-> r.anomaly_flags]
    /\ UNCHANGED <<ch, loopOthers>>

LoopDetect ==
    /\ ~ah.trapped
    /\ ah.detects < MaxStream
    /\ \E s \in Samples, trap \in BOOLEAN, dt \in SamplePeriods :
         LoopPass(s, trap, loop.now + dt)

NextLoop == LoopDetect

SpecLoop == InitLoop /\ [][NextLoop]_vars

(***************************************************************************)
(* The IPC sender: ipc_socket_send called any number of times, each send   *)
(* succeeding or failing with one of the errors of send(2).                *)
(***************************************************************************)
\* the bytes of an unsigned integer in n bytes, least significant first, and
\* the integer of such bytes
RECURSIVE LeBytes(_, _)
LeBytes(v, n) == IF n = 0 THEN <<>> ELSE <<v % 256>> \o LeBytes(v \div 256, n - 1)

RECURSIVE FromLe(_)
FromLe(bytes) == IF bytes = <<>> THEN 0 ELSE Head(bytes) + 256 * FromLe(Tail(bytes))

\* the four bytes of a float in memory: IEEE 754 binary32, least significant
\* byte first (sign, 8 bits of biased exponent, 23 bits of fraction)
FloatBytes(a) ==
    IF a[1] = 0 THEN <<0, 0, 0, 0>>
    ELSE LET sign == IF a[1] < 0 THEN 1 ELSE 0
             mag == IF a[1] < 0 THEN -a[1] ELSE a[1]
             b == BitLen(mag)
             biased == a[2] + b - 1 + 127
             frac == (mag - 2 ^ (b - 1)) * 2 ^ (24 - b)
         IN  <<frac % 256, (frac \div 256) % 256,
               (biased % 2) * 128 + frac \div 65536,
               sign * 128 + biased \div 2>>

\* the float of four bytes in memory
BytesFloat(bytes) ==
    LET sign == bytes[4] \div 128
        biased == (bytes[4] % 128) * 2 + bytes[3] \div 128
        frac == (bytes[3] % 128) * 65536 + bytes[2] * 256 + bytes[1]
        mag == 8388608 + frac
    IN  IF biased = 0 /\ frac = 0 THEN FloatZero
        ELSE Canon(IF sign = 1 THEN -mag ELSE mag, biased - 127 - 23)

\* ipc_sample_wire_t, pmu.c lines 424-435: the fields in order, and their sizes
WireCounters ==
    <<"timestamp_ns", "cache_references", "cache_misses", "branch_instructions",
      "branch_misses", "cycles", "instructions">>
WireRates == <<"cache_miss_rate", "branch_miss_rate", "ipc">>

\* __attribute__((packed)), pmu.c line 424: no bytes after the last field;
\* without it the struct is padded to a multiple of its 8-byte alignment
TailPaddingAligned(size) == (8 - (size % 8)) % 8
TailPadding(size) == 0

RECURSIVE Concat(_)
Concat(seqs) == IF seqs = <<>> THEN <<>> ELSE Head(seqs) \o Concat(Tail(seqs))

\* ipc_socket_send, lines 363-375: the wire record of a sample as send sees
\* it, sizeof(wire) bytes
Encode(sample) ==
    LET body == Concat([i \in 1..7 |-> LeBytes(sample[WireCounters[i]], 8)])
                \o Concat([i \in 1..3 |-> FloatBytes(sample[WireRates[i]])])
    IN  body \o [k \in 1..TailPadding(Len(body)) |-> 0]

\* the sample read back from a wire record: the fields of ipc_sample_wire_t
\* at their offsets
Decode(wire) ==
    [f \in {WireCounters[i] : i \in 1..7} \cup {WireRates[i] : i \in 1..3} |->
        IF \E i \in 1..7 : WireCounters[i] = f
        THEN LET i == CHOOSE i \in 1..7 : WireCounters[i] = f
             IN  FromLe(SubSeq(wire, 8 * (i - 1) + 1, 8 * i))
        ELSE LET i == CHOOSE i \in 1..3 : WireRates[i] = f
             IN  BytesFloat(SubSeq(wire, 56 + 4 * (i - 1) + 1, 56 + 4 * i))]

\* the errors of send(2) the model draws from; EWOULDBLOCK is EAGAIN on Linux
SendErrnos == {"EAGAIN", "ECONNREFUSED", "EPIPE", "ENOBUFS"}

\* ipc_socket_send, line 378: the errors dropped without a line
SilentErrnos == {"EAGAIN", "EWOULDBLOCK", "ECONNREFUSED"}

\* the samples given to ipc_socket_send
WireSamples ==
    {[timestamp_ns |-> 0, cache_references |-> 0, cache_misses |-> 0,
      branch_instructions |-> 0, branch_misses |-> 0, cycles |-> 0,
      instructions |-> 0, cache_miss_rate |-> FloatZero,
      branch_miss_rate |-> FloatZero, ipc |-> FloatZero],
     [timestamp_ns |-> 2147483647, cache_references |-> 300, cache_misses |-> 75,
      branch_instructions |-> 65536, branch_misses |-> 255, cycles |-> 16777216,
      instructions |-> 50331648, cache_miss_rate |-> <<1, -2>>,
      branch_miss_rate |-> <<5, -11>>, ipc |-> <<3, 0>>],
     [timestamp_ns |-> 1000000007, cache_references |-> 256, cache_misses |-> 1,
      branch_instructions |-> 1, branch_misses |-> 1, cycles |-> 7,
      instructions |-> 5, cache_miss_rate |-> <<1, -8>>,
      branch_miss_rate |-> FloatOne, ipc |-> <<5, -3>>]}

\* ipc_socket_send, lines 359-384: the value returned, the record given to
\* send and the lines written to stderr, for a send that ends as outcome.
\* The pointer sample is <<>> when NULL and <<s>> when it points to s.
ipc_socket_send(fd, sample, outcome) ==
    IF fd < 0 \/ sample = <<>>
    THEN [rc |-> -1, wire |-> <<>>, lines |-> <<>>]
    ELSE IF outcome = "sent"
    THEN [rc |-> 0, wire |-> Encode(sample[1]), lines |-> <<>>]
    ELSE IF outcome \in SilentErrnos
    THEN [rc |-> -1, wire |-> Encode(sample[1]), lines |-> <<>>]
    ELSE [rc |-> -1, wire |-> Encode(sample[1]), lines |-> <<outcome>>]

InitIpc ==
    /\ RbNone
    /\ SpscIdle
    /\ SysInit
    /\ AeNone
    /\ UnitNone

IpcSendCall ==
    /\ ipcs.calls < MaxSends
    /\ \E fd \in {-1, 3}, sample \in {<<s>> : s \in WireSamples} \cup {<<>>},
          outcome \in {"sent"} \cup SendErrnos :
         LET r == ipc_socket_send(fd, sample, outcome)
         IN  ipcs' = [calls |-> ipcs.calls + 1,
                      rc |-> r.rc,
                      outcome |-> IF r.wire = <<>> THEN "none" ELSE outcome,
                      sample |-> sample,
                      wire |-> r.wire,
                      stderr |-> ipcs.stderr \o r.lines]
    /\ UNCHANGED <<rbVars, spscVars, sysVars, aeVars, ipcOthers>>

NextIpc == IpcSendCall

SpecIpc == InitIpc /\ [][NextIpc]_vars

(***************************************************************************)
(* The configuration: config_set_defaults, then config_parse_args on a     *)
(* command line and the file that -c names.  Three settings are kept.      *)
(***************************************************************************)
\* parse_kv, lines 125-126: strcmp(val, "true") == 0 || strcmp(val, "1") == 0
BoolOf(val) == val = <<"t", "r", "u", "e">> \/ val = <<"1">>

\* config_set_defaults, lines 64-90
config_set_defaults(cfg) ==
    [cfg EXCEPT !.sampling_interval_us = 1000, !.learning_duration_sec = 60,
                !.verbose = FALSE]

\* parse_kv, lines 103-143: the configuration after the pair, and 0 or -1
parse_kv(cfg, key, val) ==
    IF key = "sampling_interval_us"
    THEN [cfg |-> [cfg EXCEPT !.sampling_interval_us = StrToUl(val)], rc |-> 0]
    ELSE IF key = "learning_duration_sec"
    THEN [cfg |-> [cfg EXCEPT !.learning_duration_sec = StrToUl(val)], rc |-> 0]
    ELSE IF key = "verbose"
    THEN [cfg |-> [cfg EXCEPT !.verbose = BoolOf(val)], rc |-> 0]
    ELSE [cfg |-> cfg, rc |-> -1]

\* config_load_file, lines 145-182, on the key = value lines of the file
RECURSIVE LoadLines(_, _, _)
LoadLines(cfg, lines, errors) ==
    IF lines = <<>> THEN [cfg |-> cfg, rc |-> IF errors > 0 THEN -1 ELSE 0]
    ELSE LET r == parse_kv(cfg, Head(lines).key, Head(lines).val)
         IN  LoadLines(r.cfg, Tail(lines), IF r.rc # 0 THEN errors + 1 ELSE errors)

config_load_file(cfg, file) ==
    IF ~file.exists THEN [cfg |-> cfg, rc |-> -1]
    ELSE LoadLines(cfg, file.lines, 0)

\* config_parse_args, lines 213-241: the getopt loop
RECURSIVE GetOpts(_, _, _)
GetOpts(cfg, argv, config_path) ==
    IF argv = <<>> THEN [cfg |-> cfg, config_path |-> config_path, rc |-> 0]
    ELSE LET a == Head(argv)
         IN  IF a.opt = "c" THEN GetOpts(cfg, Tail(argv), TRUE)
             ELSE IF a.opt = "i"
             THEN GetOpts([cfg EXCEPT !.sampling_interval_us = StrToUl(a.arg)],
                          Tail(argv), config_path)
             ELSE IF a.opt = "l"
             THEN GetOpts([cfg EXCEPT !.learning_duration_sec = StrToUl(a.arg)],
                          Tail(argv), config_path)
             ELSE IF a.opt = "v"
             THEN GetOpts([cfg EXCEPT !.verbose = TRUE], Tail(argv), config_path)
             ELSE [cfg |-> cfg, config_path |-> config_path, rc |-> -1]

\* config_parse_args, lines 243-247: the file is loaded after the loop
LoadsFile(config_path) == config_path

\* config_parse_args, lines 205-250
config_parse_args(cfg, argv, file) ==
    LET g == GetOpts(cfg, argv, FALSE)
    IN  IF g.rc # 0 THEN [cfg |-> g.cfg, rc |-> -1]
        ELSE IF LoadsFile(g.config_path)
        THEN [cfg |-> config_load_file(g.cfg, file).cfg, rc |-> 0]
        ELSE [cfg |-> g.cfg, rc |-> 0]

\* the options of a command line: -c FILE, -i USEC, -l SEC, -v, -h
Options ==
    {[opt |-> "c", arg |-> <<"f">>],
     [opt |-> "i", arg |-> <<"2", "5", "0">>],
     [opt |-> "i", arg |-> <<"7">>],
     [opt |-> "l", arg |-> <<"9", "s">>],
     [opt |-> "v", arg |-> <<>>],
     [opt |-> "h", arg |-> <<>>]}

\* the command lines of at most n options
RECURSIVE ArgLists(_)
ArgLists(n) ==
    IF n = 0 THEN {<<>>}
    ELSE ArgLists(n - 1) \cup
         {Append(l, o) : l \in {l \in ArgLists(n - 1) : Len(l) = n - 1}, o \in Options}

\* the files -c may name: none, an empty one, and three with settings
Files ==
    {[exists |-> FALSE, lines |-> <<>>],
     [exists |-> TRUE, lines |-> <<>>],
     [exists |-> TRUE,
      lines |-> <<[key |-> "sampling_interval_us", val |-> <<"5", "0", "0">>]>>],
     [exists |-> TRUE,
      lines |-> <<[key |-> "verbose", val |-> <<"f", "a", "l", "s", "e">>],
                  [key |-> "sampling_interval_us", val |-> <<"7">>]>>],
     [exists |-> TRUE,
      lines |-> <<[key |-> "bogus", val |-> <<"1">>],
                  [key |-> "learning_duration_sec", val |-> <<"3", "0">>],
                  [key |-> "verbose", val |-> <<"1">>]>>]}

\* main, lines 130-131: config_set_defaults, with argv and the file in place
InitConf ==
    /\ RbNone
    /\ SpscIdle
    /\ SysInit
    /\ AeNone
    /\ CorrNone
    /\ loop = NoLoop
    /\ ipcs = NoIpc
    /\ pmu = NoPmu
    /\ lg = NoLog
    /\ ri = NoRbInit
    /\ cnt = NoCount
    /\ sl = NoLoopState
    /\ \E argv \in ArgLists(MaxArgs), file \in Files :
         conf = [NoConf EXCEPT !.argv = argv, !.file = file,
                               !.cfg = config_set_defaults(@)]

\* main, line 133: config_parse_args(&cfg, argc, argv)
ParseArgsCall ==
    /\ ~conf.parsed
    /\ LET r == config_parse_args(conf.cfg, conf.argv, conf.file)
       IN  conf' = [conf EXCEPT !.parsed = TRUE, !.rc = r.rc, !.cfg = r.cfg]
    /\ UNCHANGED <<rbVars, spscVars, sysVars, aeVars, confOthers>>

NextConf == ParseArgsCall

SpecConf == InitConf /\ [][NextConf]_vars

(***************************************************************************)
(* The counters: pmu_open, where each perf_event_open succeeds or fails,   *)
(* then pmu_read.                                                          *)
(***************************************************************************)
PMU_NUM_COUNTERS == 6
PMU_CRITICAL_MIN == 2
PMU_IDX_CYCLES == 0
PMU_IDX_INSTRUCTIONS == 1
PMU_IDX_CACHE_MISS == 2
PMU_IDX_BRANCH_MISS == 3
PMU_IDX_BRANCH_INST == 4
PMU_IDX_CACHE_REF == 5

\* the events pmu_open asks perf_event_open for, in its order; the slot
\* CACHE_MISS has three alternatives
Events ==
    <<"CPU_CYCLES", "INSTRUCTIONS", "CACHE_MISSES", "CACHE_REFERENCES_AS_MISSES",
      "SW_CPU_CLOCK", "BRANCH_MISSES", "BRANCH_INSTRUCTIONS", "CACHE_REFERENCES">>

\* pmu_open, lines 184-261: the events tried for each slot, first success
Alternatives(i) ==
    IF i = PMU_IDX_CYCLES THEN <<"CPU_CYCLES">>
    ELSE IF i = PMU_IDX_INSTRUCTIONS THEN <<"INSTRUCTIONS">>
    ELSE IF i = PMU_IDX_CACHE_MISS
    THEN <<"CACHE_MISSES", "CACHE_REFERENCES_AS_MISSES", "SW_CPU_CLOCK">>
    ELSE IF i = PMU_IDX_BRANCH_MISS THEN <<"BRANCH_MISSES">>
    ELSE IF i = PMU_IDX_BRANCH_INST THEN <<"BRANCH_INSTRUCTIONS">>
    ELSE <<"CACHE_REFERENCES">>

\* open_one / open_event_with_fallback, lines 116-144: the slot is opened
\* when the kernel grants one of its alternatives
SlotOpens(i, granted) ==
    \E k \in 1..Len(Alternatives(i)) : Alternatives(i)[k] \in granted

\* pmu_close, lines 364-374
pmu_closeLeader(ctx) == [ctx EXCEPT !.group_fd = -1]
pmu_close(ctx) ==
    [ctx EXCEPT !.fds = [i \in 0..(PMU_NUM_COUNTERS - 1) |-> -1], !.group_fd = -1]

\* pmu_close, lines 367-369: the slots whose descriptor it hands to close(2)
Closed(ctx) == {i \in 0..(PMU_NUM_COUNTERS - 1) : ctx.fds[i] >= 0}

\* the descriptors perf_event_open has made are told apart by the slot they
\* were opened for; the probe of line 173 is one more
ProbeId == PMU_NUM_COUNTERS
Descriptors == 0..ProbeId
NoneShut == [d \in Descriptors |-> 0]

\* pmu_open, lines 170-180: the probe is made when cpu is -1, and closed at
\* line 178 when it gave a descriptor
ProbeOpened(cpu, probe_enoent, probe_ok) == cpu = -1 /\ ~probe_enoent /\ probe_ok

\* pmu_count_open, lines 286-294
pmu_count_open(ctx) ==
    Cardinality({i \in 0..(PMU_NUM_COUNTERS - 1) : ctx.fds[i] >= 0})

\* pmu_open, line 264: open_count < PMU_CRITICAL_MIN
TooFewOpenOfAll(open_count) == open_count < PMU_NUM_COUNTERS
TooFewOpen(open_count) == open_count < PMU_CRITICAL_MIN

\* the descriptor of slot i when the slots of the set opened are open:
\* descriptors are handed out from 3 in the order of opening
FdOf(i, opened) ==
    IF i \in opened THEN 3 + Cardinality({j \in opened : j < i}) ELSE -1

\* pmu_open, lines 149-284: the context and the value returned, when the
\* kernel grants the events of the set granted, the probe of line 173 fails
\* with ENOENT or not, and the ioctl of line 276 succeeds or not
pmu_open(cpu, pid, granted, probe_enoent, probe_ok, enable_ok) ==
    LET both == pid = -1 /\ cpu = -1
        probed == IF ProbeOpened(cpu, probe_enoent, probe_ok) THEN {ProbeId} ELSE {}
        \* the result of a failing return: pmu_close on the context as it is
        Fail(pre) ==
            [ctx |-> pmu_close(pre), rc |-> -1,
             made |-> probed \cup Closed(pre),
             shut |-> [d \in Descriptors |->
                         (IF d \in probed THEN 1 ELSE 0)
                         + (IF d \in Closed(pre) THEN 1 ELSE 0)]]
        use_pid == IF both THEN 0 ELSE pid
        use_cpu == IF cpu = -1 /\ probe_enoent THEN 0 ELSE cpu
        blank == [fds |-> [i \in 0..(PMU_NUM_COUNTERS - 1) |-> -1],
                  cpu |-> use_cpu, pid |-> use_pid, group_fd |-> -1]
        optional == {i \in 2..(PMU_NUM_COUNTERS - 1) : SlotOpens(i, granted)}
        opened == {PMU_IDX_CYCLES, PMU_IDX_INSTRUCTIONS} \cup optional
        full == [blank EXCEPT
                   !.fds = [i \in 0..(PMU_NUM_COUNTERS - 1) |-> FdOf(i, opened)],
                   !.group_fd = 3]
    IN  IF ~SlotOpens(PMU_IDX_CYCLES, granted)
        THEN Fail(blank)
        ELSE IF ~SlotOpens(PMU_IDX_INSTRUCTIONS, granted)
        THEN Fail([blank EXCEPT !.fds[PMU_IDX_CYCLES] = 3, !.group_fd = 3])
        ELSE IF TooFewOpen(pmu_count_open(full))
        THEN Fail(full)
        ELSE IF ~enable_ok
        THEN Fail(full)
        ELSE [ctx |-> full, rc |-> 0,
              made |-> probed \cup Closed(full),
              shut |-> [d \in Descriptors |-> IF d \in probed THEN 1 ELSE 0]]

\* the integer part of a double that is not negative
Trunc(a) == IF a[2] >= 0 THEN a[1] * 2 ^ a[2] ELSE a[1] \div 2 ^ (-a[2])

\* read_scaled, lines 308-315: the value scaled for the time the counter
\* was multiplexed out
read_scaled(raw) ==
    IF raw.time_running = 0 THEN 0
    ELSE IF raw.time_running < raw.time_enabled
    THEN Trunc(FMul(FromInt(raw.value),
                    FDiv(FromInt(raw.time_enabled), FromInt(raw.time_running))))
    ELSE raw.value

\* what read(2) gives for the counter of slot i after k units of work
RawRead(i, k, timing) ==
    [value |-> (i + 1) * k, time_enabled |-> timing[1], time_running |-> timing[2]]

\* the enabled and running times of a read: always running, multiplexed to
\* half the time, never scheduled
Timings == {<<2, 2>>, <<4, 2>>, <<4, 0>>}

\* pmu_read, lines 319-344: the reading and the value returned; failing is
\* the slot whose read(2) is short, or -1
pmu_read(ctx, k, timing, failing) ==
    LET vals == [i \in 0..(PMU_NUM_COUNTERS - 1) |->
                    IF ctx.fds[i] >= 0 THEN read_scaled(RawRead(i, k, timing))
                    ELSE 0]
    IN  IF failing >= 0 /\ ctx.fds[failing] >= 0
        THEN [out |-> ZeroReading, rc |-> -1]
        ELSE [out |-> [cycles |-> vals[PMU_IDX_CYCLES],
                       instructions |-> vals[PMU_IDX_INSTRUCTIONS],
                       cache_misses |-> vals[PMU_IDX_CACHE_MISS],
                       branch_misses |-> vals[PMU_IDX_BRANCH_MISS],
                       branch_instructions |-> vals[PMU_IDX_BRANCH_INST],
                       cache_references |-> vals[PMU_IDX_CACHE_REF]],
              rc |-> 0]

InitPmu ==
    /\ RbNone
    /\ SpscIdle
    /\ SysInit
    /\ AeNone
    /\ UnitNone

\* sampling_loop, line 115, and main, line 150: pmu_open(&pmu, cpu, pid)
PmuOpenCall ==
    /\ ~pmu.called
    /\ \E cpu \in {-1, 0}, pid \in {-1, 0}, granted \in SUBSET {Events[k] : k \in 1..8},
          probe_enoent \in BOOLEAN, probe_ok \in BOOLEAN, enable_ok \in BOOLEAN :
         LET r == pmu_open(cpu, pid, granted, probe_enoent, probe_ok, enable_ok)
         IN  pmu' = [pmu EXCEPT !.called = TRUE, !.rc = r.rc,
                                !.made = r.made, !.shut = r.shut,
                                !.fds = r.ctx.fds, !.group_fd = r.ctx.group_fd,
                                !.cpu = r.ctx.cpu, !.pid = r.ctx.pid,
                                !.opens = granted, !.enabled = enable_ok]
    /\ UNCHANGED <<rbVars, spscVars, sysVars, aeVars, pmuOthers>>

\* sampling_loop, line 140, and main, line 157: pmu_read(&pmu, &cur), called
\* once pmu_open has returned 0
PmuReadCall ==
    /\ pmu.called
    /\ pmu.rc = 0
    /\ pmu.reads < MaxPmuReads
    /\ \E k \in 1..2, timing \in Timings, failing \in -1..(PMU_NUM_COUNTERS - 1) :
         LET r == pmu_read(pmu, k, timing, failing)
         IN  pmu' = [pmu EXCEPT !.reads = @ + 1, !.read_rc = r.rc, !.out = r.out]
    /\ UNCHANGED <<rbVars, spscVars, sysVars, aeVars, pmuOthers>>

\* sampling_loop, lines 124 and 165: pmu_close(&pmu); nothing keeps a caller
\* from calling it again
PmuCloseCall ==
    /\ pmu.called
    /\ pmu.closes < MaxCloses
    /\ LET ctx == [fds |-> pmu.fds, group_fd |-> pmu.group_fd]
            c == pmu_close(ctx)
       IN  pmu' = [pmu EXCEPT !.fds = c.fds, !.group_fd = c.group_fd,
                              !.closes = @ + 1,
                              !.shut = [d \in Descriptors |->
                                          IF d \in Closed(ctx) THEN @[d] + 1
                                          ELSE @[d]]]
    /\ UNCHANGED <<rbVars, spscVars, sysVars, aeVars, pmuOthers>>

NextPmu ==
    \/ PmuOpenCall
    \/ PmuReadCall

SpecPmu == InitPmu /\ [][NextPmu]_vars

\* pmu_open, then calls of pmu_close
NextPmuClose ==
    \/ PmuOpenCall
    \/ PmuCloseCall

SpecPmuClose == InitPmu /\ [][NextPmuClose]_vars

(***************************************************************************)
(* The logger: logger_init, then logger_alert calls at the times the raw   *)
(* monotonic clock gives.  An alert is written as one JSON record.         *)
(***************************************************************************)
\* logger_alert, lines 186 and 190: sizeof comm_esc, reason_esc and json
COMM_ESC_SIZE == 256
REASON_ESC_SIZE == 512
JSON_SIZE == 1024

\* level_str, lines 140-148
level_str(level) ==
    IF level = 0 THEN "INFO"
    ELSE IF level = 1 THEN "WARNING"
    ELSE IF level = 2 THEN "CRITICAL"
    ELSE "UNKNOWN"

\* the number of characters "%lu" and "%d" write for n >= 0
RECURSIVE DecLen(_)
DecLen(n) == IF n < 10 THEN 1 ELSE 1 + DecLen(n \div 10)

\* json_escape, lines 75-92, on len characters none of which is a quote, a
\* backslash or a control character: the loop stops at j + 2 >= out_size
EscapedLen(len, out_size) == Min(len, out_size - 2)

\* the characters of the format of lines 192-197 outside its conversions
JsonFixedLen ==
    Len("{\"level\":\"") + Len("\",\"timestamp\":") + Len(",\"pid\":")
        + Len(",\"comm\":\"") + Len("\",\"anomaly_score\":")
        + Len(",\"reason\":\"") + Len("\"}") + Len("\n")

\* snprintf, lines 191-203: the length of the record; "%.4f" writes the
\* integer part of a score that is not negative, a point and four digits
JsonLen(a) ==
    JsonFixedLen + Len(level_str(a.level)) + DecLen(a.timestamp_ns)
        + DecLen(a.pid) + EscapedLen(a.comm_len, COMM_ESC_SIZE)
        + (DecLen(Trunc(a.anomaly_score)) + 5)
        + EscapedLen(a.reason_len, REASON_ESC_SIZE)

\* logger_alert, line 205: if (n < 0 || n >= (int)sizeof(json)) return
TooLong(n) == n < 0 \/ n >= JSON_SIZE

\* logger_alert, lines 179-183: the call returns inside the cooldown
InCooldownNever(cooldown_sec, last_alert_ns, now) == FALSE
InCooldown(cooldown_sec, last_alert_ns, now) ==
    /\ cooldown_sec > 0
    /\ last_alert_ns > 0
    /\ now - last_alert_ns < cooldown_sec * NsPerSec

\* logger_alert, lines 167-224, of a logger that writes to stdout: the
\* logger after the call and the record written, if one is
logger_alert(log, now, a) ==
    IF InCooldown(log.cooldown_sec, log.last_alert_ns, now)
    THEN [log |-> log, suppressed |-> TRUE, written |-> <<>>]
    ELSE [log |-> [log EXCEPT !.last_alert_ns = now],
          suppressed |-> FALSE,
          written |-> IF TooLong(JsonLen(a)) THEN <<>>
                      ELSE <<[ns |-> now, level |-> level_str(a.level),
                              n |-> JsonLen(a)]>>]

\* parse_kv, lines 131-132: alert_cooldown_sec
Cooldowns == {0, 1, 2}

\* get_ns, lines 160-165: values of CLOCK_MONOTONIC_RAW, which is positive
\* on a running system and never goes back
ClockTimes == {1, NsPerSec, NsPerSec + 1, 2 * NsPerSec, 2 * NsPerSec + 1}

\* main, lines 333-345: the arguments of logger_alert: a level, the sample's
\* timestamp, the pid, comm ("system" or at most 63 characters of a
\* process_risk_t), composite_score in [0, 1], and the shortest and the
\* longest text of anomaly_flags_str
AlertArgs ==
    {[level |-> 0, timestamp_ns |-> 1, pid |-> 1, comm_len |-> 6,
      anomaly_score |-> <<1, -2>>, reason_len |-> 11],
     [level |-> 2, timestamp_ns |-> 2 * NsPerSec, pid |-> 1, comm_len |-> 63,
      anomaly_score |-> FloatOne, reason_len |-> 73]}

\* logger_init(&logger, ..., cfg.alert_cooldown_sec), lines 95-121
InitLog ==
    /\ RbNone
    /\ SpscIdle
    /\ SysInit
    /\ AeNone
    /\ CorrNone
    /\ loop = NoLoop
    /\ ipcs = NoIpc
    /\ conf = NoConf
    /\ pmu = NoPmu
    /\ ri = NoRbInit
    /\ cnt = NoCount
    /\ sl = NoLoopState
    /\ \E cooldown_sec \in Cooldowns :
         lg = [NoLog EXCEPT !.log.cooldown_sec = cooldown_sec]

\* one call of logger_alert, the clock read at line 178 being now
LoggerAlertCall ==
    /\ lg.calls < MaxAlerts
    /\ \E now \in ClockTimes, a \in AlertArgs :
         /\ now >= lg.now
         /\ LET r == logger_alert(lg.log, now, a)
            IN  lg' = [lg EXCEPT !.log = r.log, !.now = now, !.calls = @ + 1,
                                 !.out = @ \o r.written,
                                 !.last = [suppressed |-> r.suppressed,
                                           emitted |-> r.written # <<>>,
                                           n |-> JsonLen(a)]]
    /\ UNCHANGED <<rbVars, spscVars, sysVars, aeVars, logOthers>>

NextLog == LoggerAlertCall

SpecLog == InitLog /\ [][NextLog]_vars

(***************************************************************************)
(* The body of sampling_loop on its own: every tick the counters have      *)
(* moved on, pmu_read succeeds or fails, and ringbuffer_push stores the    *)
(* sample or finds the buffer full.                                        *)
(***************************************************************************)
\* sampling_loop, line 140: pmu_read(&pmu, &cur) != 0
PmuReadFailed(rc) == rc # 0

\* sampling_loop, lines 140-161: one pass of the loop body over the locals
\* prev and have_prev; push says whether ringbuffer_push is called, and
\* delta is the counter part of the sample handed to it
sampling_tick(l, read_rc, cur, push_ok) ==
    IF PmuReadFailed(read_rc)
    THEN [prev |-> l.prev, have_prev |-> l.have_prev, push |-> FALSE,
          delta |-> ZeroReading]
    ELSE [prev |-> NewPrev(l.prev, cur, l.have_prev /\ push_ok),
          have_prev |-> TRUE, push |-> l.have_prev,
          delta |-> Delta(cur, l.prev)]

\* the results of pmu_read
ReadResults == {0, -1}

InitSampling ==
    /\ RbNone
    /\ SpscIdle
    /\ SysInit
    /\ AeNone
    /\ UnitNone

\* sampling_loop, lines 137-161: one tick
SamplingTick ==
    /\ \E read_rc \in ReadResults, inc \in 0..MaxInc, push_ok \in BOOLEAN :
         LET failed == PmuReadFailed(read_rc)
             hw == sl.hw + inc
             cur == HwReading(hw)
             t == sampling_tick(sl, read_rc, cur, push_ok)
         IN  /\ IF failed THEN sl.fails < MaxFails ELSE sl.reads < MaxReads
             /\ sl' = [sl EXCEPT
                    !.prev = t.prev,
                    !.have_prev = t.have_prev,
                    !.hw = hw,
                    !.reads = IF failed THEN @ ELSE @ + 1,
                    !.fails = IF failed THEN @ + 1 ELSE @,
                    !.attempts = IF t.push THEN @ + 1 ELSE @,
                    !.skipped = failed,
                    !.last_ok_read = IF failed THEN @ ELSE cur,
                    !.last = IF t.push
                             THEN [valid |-> TRUE, after_skip |-> sl.skipped,
                                   counters |-> t.delta, cur |-> cur,
                                   prev_read |-> sl.last_ok_read]
                             ELSE @]
    /\ UNCHANGED <<rbVars, spscVars, sysVars, aeVars, slOthers>>

NextSampling == SamplingTick

SpecSampling == InitSampling /\ [][NextSampling]_vars

(***************************************************************************)
(* Properties of the ring buffer.                                          *)
(***************************************************************************)
\* the samples stored from index tl up to, not including, index hd
RECURSIVE Stored(_, _, _, _)
Stored(buf, tl, hd, cap) ==
    IF tl = hd THEN <<>>
    ELSE <<buf[tl]>> \o Stored(buf, BitAnd(tl + 1, cap - 1), hd, cap)

FirstSamples(n) == [i \in 1..n |-> NthSample(i)]

CountOf(seq, v) == Cardinality({i \in 1..Len(seq) : seq[i] = v})

\* C1: under every interleaving of the producer and the consumer, the samples
\* returned by successful pops followed by the samples still stored are
\* exactly the samples accepted by successful pushes, in push order; a sample
\* being copied out is the next accepted one, and with nothing stored and no
\* call in progress every accepted sample has been returned exactly once.
C1_Fifo ==
    /\ pushed = popped \o Stored(buffer, tail, head, capacity)
    /\ c_pc = "publish" => c_out = pushed[Len(popped) + 1]
    /\ (p_pc = "idle" /\ c_pc = "idle" /\ head = tail) => popped = pushed

\* C1 witness: the indices wrapped around (as many pops returned as the
\* buffer has slots) while a push and a pop are both in progress.
C1_Witness ==
    /\ capacity >= 2
    /\ Len(popped) >= capacity
    /\ p_pc = "publish"
    /\ c_pc = "publish"

\* C2, state part: after N >= C pushes with no pop begun, exactly C-1 pushes
\* returned true and N-(C-1) returned false, the stored slots are the first
\* C-1 samples; and when the pops begin after such a run, the first C-1
\* samples popped are the first C-1 samples pushed, in order.
C2_OverflowState ==
    /\ (popStartAt = -1 /\ p_pc = "idle" /\ Len(pushResults) >= capacity) =>
          /\ CountOf(pushResults, TRUE) = capacity - 1
          /\ CountOf(pushResults, FALSE) = Len(pushResults) - (capacity - 1)
          /\ pushed = FirstSamples(capacity - 1)
          /\ Stored(buffer, tail, head, capacity) = FirstSamples(capacity - 1)
    /\ popStartAt >= capacity =>
          \A i \in 1..Len(popped) : i <= capacity - 1 => popped[i] = NthSample(i)

\* C2, step part: a push that returns false changes neither head, tail nor
\* any slot.
C2_RejectedPushFrame ==
    (Len(pushResults') = Len(pushResults) + 1
        /\ pushResults'[Len(pushResults')] = FALSE) => UNCHANGED rbVars

\* C2: of N >= C consecutive pushes without consumer activity exactly C-1
\* succeed, the rejected ones leave head, tail and the slots unchanged, and
\* later pops return the first C-1 pushed samples in order.
C2_Overflow == []C2_OverflowState /\ [][C2_RejectedPushFrame]_vars

\* C2 witness: capacity 4, six pushes before the first pop, three pops done.
C2_Witness ==
    /\ capacity = 4
    /\ popStartAt = 6
    /\ CountOf(pushResults, FALSE) = 3
    /\ Len(popped) = 3

\* exactly C pushes, all finished before the first pop began, then C pops
RoundTripOfC ==
    /\ popStartAt = capacity
    /\ Len(pushResults) = capacity
    /\ Len(popResults) = capacity
    /\ p_pc = "idle"
    /\ c_pc = "idle"

\* C3 as stated: pushing C samples into the empty buffer and popping C
\* yields the sequence of the C samples.
C3_RoundTripOfC == RoundTripOfC => popped = FirstSamples(capacity)

\* C3 amended: of C samples pushed into the empty buffer only the first C-1
\* are accepted (the C-th push returns full); popping C then yields exactly
\* those C-1 samples in order and the C-th pop returns empty.
C3_RoundTripAmended ==
    RoundTripOfC =>
        /\ popped = FirstSamples(capacity - 1)
        /\ pushResults = [i \in 1..capacity |-> i < capacity]
        /\ popResults = [i \in 1..capacity |-> i < capacity]

\* C3 witness: the round trip of C = 4 samples has been made.
C3_Witness == RoundTripOfC /\ capacity = 4

(***************************************************************************)
(* Properties of the sampler and the orchestrator.                         *)
(***************************************************************************)
\* C4 as stated: the first sample pushed after a drop carries the counts
\* since the last sample that was pushed.
C4_CumulativeDelta ==
    (hist.last_push.valid /\ hist.last_push.after_drop) =>
        hist.last_push.counters =
            Delta(hist.last_push.cur, hist.last_push.prev_pushed)

\* C4 amended: every pushed sample, the first one after a drop included,
\* carries the counts since the previous successful PMU read only, so the
\* counts of a dropped interval are carried by no sample.
C4_DeltaSincePreviousRead ==
    hist.last_push.valid =>
        /\ hist.last_push.counters =
              Delta(hist.last_push.cur, hist.last_push.prev_read)
        /\ hist.last_push.after_drop =>
              hist.last_push.prev_read # hist.last_push.prev_pushed

\* C4 witness: a sample was pushed after a sample had been dropped.
C4_Witness == hist.last_push.valid /\ hist.last_push.after_drop

Rank(l) ==
    CASE l = "INIT" -> 0
      [] l = "LEARNING" -> 1
      [] l = "DETECTING" -> 2
      [] l = "SHUTTING_DOWN" -> 3
      [] l = "DONE" -> 4

C5_Step ==
    /\ Rank(main'.lifecycle) >= Rank(main.lifecycle)
    /\ main'.lifecycle = "DONE" =>
          main.lifecycle \in {"SHUTTING_DOWN", "DONE"}
    /\ anomaly'.n # anomaly.n => main.lifecycle = "LEARNING"
    /\ hist'.detect_calls # hist.detect_calls => main.lifecycle = "DETECTING"
    /\ hist.detect_calls > 0 => anomaly'.n = anomaly.n
    /\ g_shutdown = 1 => g_shutdown' = 1
    /\ (g_shutdown = 1 /\ main'.lifecycle # main.lifecycle) =>
          main'.lifecycle \in {"SHUTTING_DOWN", "DONE"}

\* C5: the lifecycle state never moves backwards (INIT, LEARNING, DETECTING,
\* SHUTTING_DOWN, DONE), samples are learned only in LEARNING and evaluated
\* only in DETECTING, nothing is learned once detection has begun, the
\* cancellation token is never cleared, and once it is set the only state
\* changes left are to SHUTTING_DOWN and then DONE.
C5_Lifecycle == [][C5_Step]_vars

\* C5 witness: the token was set during detection and main is shutting down.
C5_Witness ==
    /\ g_shutdown = 1
    /\ main.lifecycle = "SHUTTING_DOWN"
    /\ hist.detect_calls > 0

\* C6: when the token is set while main is in the learning loop, the
\* baseline is never finalized, anomaly_detect is never called, no alert is
\* emitted, the detection phase is never entered, and main leaves through the
\* cleanup path, joins the sampler and exits with EXIT_SUCCESS.
C6_CancelDuringLearning ==
    hist.cancel_in_learn_loop =>
        /\ ~anomaly.ready
        /\ hist.finalize_calls = 0
        /\ hist.detect_calls = 0
        /\ hist.alerts = 0
        /\ main.lifecycle # "DETECTING"
        /\ main.pc \notin {"zero_check", "finalize", "drop_privileges",
                           "detect_guard", "detect_body"}
        /\ main.pc \in {"exiting", "done"} =>
              hist.exit_via = "cleanup" /\ main.status = 0
        /\ main.pc = "done" =>
              eng.joined /\ eng.thread = "exited" /\ main.exit_code = 0

\* C6 witness: cancelled in the learning loop after a sample was learned, and
\* the process has exited.
C6_Witness ==
    /\ hist.cancel_in_learn_loop
    /\ main.learn_samples > 0
    /\ main.pc = "done"

\* C7 as stated: learning ended by its deadline with no sample: no baseline,
\* no detection, and a non-zero exit status.
C7_ZeroSamplesFatal ==
    (hist.learn_deadline /\ main.learn_samples = 0) =>
        /\ hist.finalize_calls = 0
        /\ main.lifecycle # "DETECTING"
        /\ main.pc = "done" => main.exit_code # 0

\* C7 amended: learning ended by its deadline with no sample: no baseline and
\* no detection; the exit status is non-zero unless the token is found set
\* at the test after the loop, and then main leaves through the cleanup path
\* with status 0.
C7_ZeroSamplesFatalUnlessCancelled ==
    (hist.learn_deadline /\ main.learn_samples = 0) =>
        /\ hist.finalize_calls = 0
        /\ ~anomaly.ready
        /\ hist.detect_calls = 0
        /\ main.lifecycle # "DETECTING"
        /\ main.pc \notin {"finalize", "drop_privileges",
                           "detect_guard", "detect_body"}
        /\ main.pc \in {"exiting", "done"} =>
              IF hist.saw_shutdown_276 = "yes"
              THEN hist.exit_via = "cleanup" /\ main.status = 0
              ELSE hist.exit_via = "zero_samples" /\ main.status # 0
        /\ main.pc = "done" => main.exit_code = main.status

\* C7 witness: the deadline passed with no sample and the process exited
\* with a failure status.
C7_Witness ==
    /\ hist.learn_deadline
    /\ main.learn_samples = 0
    /\ main.pc = "done"
    /\ main.exit_code # 0

\* C8 as stated: the sampler's pmu_open failed: no detection, and a non-zero
\* exit status.
C8_PmuOpenFatal ==
    hist.pmu_open_failed =>
        /\ main.lifecycle # "DETECTING"
        /\ hist.detect_calls = 0
        /\ main.pc = "done" => main.exit_code # 0

\* C8 amended: the sampler's pmu_open failed: no sample is ever learned, no
\* baseline is finalized and detection is never entered; the exit status is
\* non-zero unless the token is found set at the test after the learning
\* loop, and then main leaves through the cleanup path with status 0.
C8_PmuOpenFatalUnlessCancelled ==
    hist.pmu_open_failed =>
        /\ main.learn_samples = 0
        /\ hist.pushes = 0
        /\ hist.finalize_calls = 0
        /\ hist.detect_calls = 0
        /\ main.lifecycle # "DETECTING"
        /\ main.pc = "done" =>
              IF hist.saw_shutdown_276 = "yes"
              THEN hist.exit_via = "cleanup" /\ main.exit_code = 0
              ELSE main.exit_code # 0

\* C8 witness: pmu_open failed, the learning deadline passed and the process
\* exited through the no-samples path.
C8_Witness ==
    /\ hist.pmu_open_failed
    /\ hist.exit_via = "zero_samples"
    /\ main.pc = "done"

\* C9: when main has returned, the sampler is stopped and joined, its PMU
\* descriptors are closed, the ring buffer is freed, the log file is closed
\* and the IPC endpoint is closed.
C9_AllReleased ==
    main.pc = "done" =>
        /\ eng.thread # "running"
        /\ eng.thread = "exited" => eng.joined
        /\ res.sampler_pmu # "open"
        /\ res.test_pmu # "open"
        /\ res.rb_block # "live"
        /\ res.log_file # "open"
        /\ res.ipc_sock # "open"

\* C10: the ring buffer is destroyed only after the sampler thread, if it was
\* started, has terminated and been joined, and the sampler never pushes
\* into a destroyed buffer.
C10_JoinBeforeDestroy ==
    /\ ~hist.use_after_free
    /\ (res.rb_block = "freed" /\ eng.thread # "none") =>
          /\ eng.joined
          /\ eng.thread = "exited"
          /\ smp.pc = "exited"

\* C10 witness: the buffer was destroyed after a sampler that pushed samples
\* was joined.
C10_Witness ==
    /\ res.rb_block = "freed"
    /\ eng.joined
    /\ hist.pushes > 0

(***************************************************************************)
(* Termination.                                                            *)
(***************************************************************************)
\* the detection loop is left only with the token set
C11_DetectionLeft ==
    (main.lifecycle = "DETECTING" /\ main'.lifecycle # "DETECTING")
        => (g_shutdown # 0 /\ main'.lifecycle = "SHUTTING_DOWN")

\* at the end of main the sampler is not running: it was joined after it
\* disabled and closed its PMU session, or it was never started
C11_SamplerGone ==
    main.lifecycle = "DONE" =>
        \/ eng.thread = "none"
        \/ /\ eng.joined
           /\ smp.pc = "exited"
           /\ res.sampler_pmu \in {"closed", "none"}

\* C11: under fair scheduling, once the cancellation token is set main
\* reaches DONE, with the sampler stopped and joined on the way; and the
\* detection loop is never left while the token is clear.
C11_Termination ==
    /\ (g_shutdown # 0) ~> (main.lifecycle = "DONE")
    /\ []C11_SamplerGone
    /\ [][C11_DetectionLeft]_vars

\* a run cancelled in its detection phase, after a sample was detected,
\* that joined the sampler and returned
C11_Witness ==
    /\ g_shutdown # 0
    /\ main.lifecycle = "DONE"
    /\ hist.detect_calls > 0
    /\ eng.joined
    /\ res.sampler_pmu = "closed"

(***************************************************************************)
(* Properties of the anomaly engine.                                       *)
(***************************************************************************)
\* C12: a step never takes the baseline's ready flag from true to false.
C12_NeverRegresses == ae.baseline.ready => ae'.baseline.ready

\* C12: the ready flag is a one-way latch: it is false from anomaly_init
\* until the first anomaly_finalize_baseline call made with at least one
\* learned sample, true from that call on, and no later anomaly_learn,
\* anomaly_finalize_baseline or anomaly_detect call sets it back to false.
C12_ReadyLatch ==
    /\ [](ae.baseline.ready <=> ah.finalized)
    /\ [][C12_NeverRegresses]_vars

\* the baseline is ready, samples were learned after it was finalized, a
\* second finalize call was made and a detect call wrote the window
C12_Witness ==
    /\ ae.baseline.ready
    /\ ae.n > ae.baseline.sample_count
    /\ ah.finalizes = 2
    /\ ah.detects = 1
    /\ ae.recent_idx = 1

\* C13: an anomaly_detect call made while the baseline is not ready
\* returns the all-zero result and leaves the burst counter and the
\* circular window (its values and its index) as they were.
C13_GatedStep ==
    (ah'.detects = ah.detects + 1 /\ ~ae.baseline.ready) =>
        /\ result' = ZeroResult
        /\ ae'.consecutive_anomalies = ae.consecutive_anomalies
        /\ ae'.recent_cmr = ae.recent_cmr
        /\ ae'.recent_idx = ae.recent_idx

C13_Gated == [][C13_GatedStep]_vars

\* a detect call was made on an engine that has learned samples and has no
\* finalized baseline
C13_Witness ==
    /\ ah.detects = 1
    /\ ah.learns >= 1
    /\ ~ae.baseline.ready
    /\ ae.burst_window >= 2
    /\ result = ZeroResult

(***************************************************************************)
(* Properties of the samples main pops.                                    *)
(***************************************************************************)
\* no value occurs twice in the sequence
NoRepeat(seq) == \A i, j \in 1..Len(seq) : seq[i] = seq[j] => i = j

\* C14: the samples popped are, in order, the samples passed to
\* anomaly_learn followed by the samples passed to anomaly_detect, each
\* once, whether or not a send to the IPC publisher failed; each popped
\* sample is passed to ipc_socket_send once when the socket is open and
\* never otherwise, so it is mirrored at most once.
C14_ConsumedOnce ==
    /\ NoRepeat(hist.popped)
    /\ hist.popped = hist.learned \o hist.detected
    /\ Len(hist.learned) = main.learn_samples
    /\ Len(hist.detected) = main.total_samples
    /\ NoRepeat(hist.sent)
    /\ hist.sent = IF main.ml_sock_fd >= 0 THEN hist.popped ELSE <<>>

\* samples were learned and samples were detected while a send to the IPC
\* publisher had failed
C14_Witness ==
    /\ Len(hist.learned) >= 1
    /\ Len(hist.detected) >= 2
    /\ hist.send_failed
    /\ Len(hist.sent) = 3

(***************************************************************************)
(* Properties of the detection outputs.                                    *)
(***************************************************************************)
\* anomaly_detect has written a result from a ready baseline
DetectOutput == ah.detects > 0 /\ ~ah.trapped /\ ae.baseline.ready

\* the flag is set in the result
FlagSet(flag) == BitAnd(result.anomaly_flags, flag) # 0

\* each primary flag is set exactly when its z-score is beyond the threshold
\* on its side
FlagsFollowZ ==
    /\ FlagSet(ANOMALY_CACHE_MISS_SPIKE) <=> FLess(ae.z_threshold, result.z_cache_miss)
    /\ FlagSet(ANOMALY_BRANCH_MISS_SPIKE) <=> FLess(ae.z_threshold, result.z_branch_miss)
    /\ FlagSet(ANOMALY_IPC_COLLAPSE) <=> FLess(result.z_ipc, FNeg(ae.z_threshold))

\* a cache-miss-rate or branch-miss-rate below the baseline mean, or an IPC
\* above it, does not set the flag of that metric
DropsAndRisesUnflagged ==
    /\ FLess(ah.last.cache_miss_rate, ae.baseline.mean_cache_miss_rate)
          => ~FlagSet(ANOMALY_CACHE_MISS_SPIKE)
    /\ FLess(ah.last.branch_miss_rate, ae.baseline.mean_branch_miss_rate)
          => ~FlagSet(ANOMALY_BRANCH_MISS_SPIKE)
    /\ FLess(ae.baseline.mean_ipc, ah.last.ipc)
          => ~FlagSet(ANOMALY_IPC_COLLAPSE)

\* C15 as stated: for every detection sample with a ready baseline and every
\* threshold Z, CACHE_MISS_SPIKE is set iff z_cmr > Z, BRANCH_MISS_SPIKE iff
\* z_bmr > Z, IPC_COLLAPSE iff z_ipc < -Z, and a cache-miss-rate or
\* branch-miss-rate drop or an IPC rise never sets a primary flag.
C15_PrimaryFlags == DetectOutput => (FlagsFollowZ /\ DropsAndRisesUnflagged)

\* C15 amended: the three equivalences hold for every threshold; a drop of
\* a miss rate or a rise of the IPC sets no primary flag when Z >= 0.
C15_PrimaryFlagsAmended ==
    DetectOutput =>
        /\ FlagsFollowZ
        /\ ~FLess(ae.z_threshold, FloatZero) => DropsAndRisesUnflagged

\* with threshold 1, a sample whose IPC collapsed and whose cache miss rate
\* is below the mean: IPC_COLLAPSE is set, CACHE_MISS_SPIKE is not
C15_Witness ==
    /\ DetectOutput
    /\ ae.z_threshold = FloatOne
    /\ ah.last = Stalled
    /\ FLess(ah.last.cache_miss_rate, ae.baseline.mean_cache_miss_rate)
    /\ FlagSet(ANOMALY_IPC_COLLAPSE)
    /\ ~FlagSet(ANOMALY_CACHE_MISS_SPIKE)

\* the magnitude of the z-score is above the threshold
Beyond(z) == FLess(ae.z_threshold, FAbs(z))

\* one of the three primary flags is set in the result
PrimaryFlagged ==
    \/ FlagSet(ANOMALY_CACHE_MISS_SPIKE)
    \/ FlagSet(ANOMALY_BRANCH_MISS_SPIKE)
    \/ FlagSet(ANOMALY_IPC_COLLAPSE)

C17_BurstRun ==
    (ah.detects > 0 /\ ae.baseline.ready) =>
        /\ ~ah.trapped
        /\ ae.consecutive_anomalies = ah.run
        /\ result.sustained_count = ah.run
        /\ FlagSet(ANOMALY_BURST_PATTERN) <=> ah.run >= ae.burst_window

(***************************************************************************)
(* Properties of the oscillation flag.                                     *)
(***************************************************************************)
\* the circular window from its oldest to its newest value: the slots not
\* written yet hold the zeros calloc left, then come the values fed
Window ==
    [i \in 1..(ae.burst_window - Len(ah.fed)) |-> FloatZero] \o ah.fed

\* the direction of the step from x to y: 1 up, -1 down, 0 level
Direction(x, y) == IF FLess(x, y) THEN 1 ELSE IF FLess(y, x) THEN -1 ELSE 0

\* the sign changes among the non-zero first differences of seq from its
\* i-th value on, prev being the last non-zero direction seen
RECURSIVE SignChanges(_, _, _)
SignChanges(seq, i, prev) ==
    IF i >= Len(seq) THEN 0
    ELSE LET dir == Direction(seq[i], seq[i + 1])
         IN  (IF dir # 0 /\ prev # 0 /\ dir # prev THEN 1 ELSE 0)
             + SignChanges(seq, i + 1, IF dir # 0 THEN dir ELSE prev)

\* the values of seq strictly alternate between two distinct values
Alternates(seq) ==
    /\ \A i \in 1..(Len(seq) - 1) : seq[i] # seq[i + 1]
    /\ \A i \in 1..(Len(seq) - 2) : seq[i] = seq[i + 2]

\* at least burst_window samples were fed and the window alternates
AlternatingWindow == Len(ah.fed) = ae.burst_window /\ Alternates(ah.fed)

ZerosOnly ==
    /\ result.z_cache_miss = FloatZero
    /\ result.z_branch_miss = FloatZero
    /\ result.z_ipc = FloatZero

\* C19: when every learning sample had the same three rates, the three
\* standard deviations of the finalized baseline are 0, every detection
\* sample gets z-scores of exactly 0, no primary flag and composite 0, and
\* while the detection samples equal the learned one anomaly_flags is 0.
C19_FlatBaseline ==
    (ah.flat /\ ae.baseline.ready) =>
        /\ ae.baseline.std_cache_miss_rate = FloatZero
        /\ ae.baseline.std_branch_miss_rate = FloatZero
        /\ ae.baseline.std_ipc = FloatZero
        /\ DetectOutput =>
              /\ ZerosOnly
              /\ ~PrimaryFlagged
              /\ result.composite_score = FloatZero
              /\ ah.same => result.anomaly_flags = ANOMALY_NONE

\* C20: for every detection output with threshold Z > 0 the composite score
\* lies in [0, 1], and it is greater than 0 if and only if at least one of
\* the three z-scores is not 0.
C20_Composite ==
    (DetectOutput /\ FLess(FloatZero, ae.z_threshold)) =>
        /\ ~FLess(result.composite_score, FloatZero)
        /\ ~FLess(FloatOne, result.composite_score)
        /\ FLess(FloatZero, result.composite_score) <=> ~ZerosOnly

(***************************************************************************)
(* Properties of anomaly_finalize_baseline.                                *)
(***************************************************************************)
\* C21: an anomaly_finalize_baseline call made after another one, with no
\* anomaly_learn in between, leaves every field of the baseline (means,
\* standard deviations, sample_count, ready) as the first call left it.
C21_FinalizeTwiceStep ==
    (/\ ah'.finalizes = ah.finalizes + 1
     /\ ah.finalizes >= 1
     /\ ~ah.learned_since) => ae'.baseline = ae.baseline

C21_FinalizeIdempotent == [][C21_FinalizeTwiceStep]_vars

\* two samples were learned, the baseline was finalized, and it was
\* finalized again with nothing learned in between
C21_Witness ==
    /\ ah.refinalized
    /\ ah.learns = 2
    /\ ae.baseline.ready
    /\ ae.baseline.sample_count = 2
    /\ ae.baseline.std_cache_miss_rate # FloatZero


(***************************************************************************)
(* Properties of the correlation engine.                                   *)
(***************************************************************************)
\* a step that is a call of correlation_update, of correlation_decay
UpdateStep == ch'.calls = ch.calls + 1 /\ ch'.op = "update"
DecayStep == ch'.calls = ch.calls + 1 /\ ch'.op = "decay"

\* the slots a step leaves as they were, but for active and anomaly_score
SlotKept(i) ==
    /\ i \in DOMAIN corr'.entries
    /\ [corr'.entries[i] EXCEPT !.active = TRUE, !.anomaly_score = FloatZero]
         = [corr.entries[i] EXCEPT !.active = TRUE, !.anomaly_score = FloatZero]

\* the table holds count slots, at most CORR_MAX_TRACKED of them
C22_TableBounded ==
    /\ corr.count <= CORR_MAX_TRACKED
    /\ DOMAIN corr.entries = 0..(corr.count - 1)
    /\ Cardinality({i \in DOMAIN corr.entries : corr.entries[i].active})
         <= CORR_MAX_TRACKED

\* the slot count never decreases; a decay keeps every slot in its place and
\* changes no more than active and anomaly_score; a creation that finds an
\* inactive slot takes the lowest one in place and touches no other slot
C22_SlotsStep ==
    /\ corr'.count >= corr.count
    /\ DecayStep =>
         /\ corr'.count = corr.count
         /\ \A i \in DOMAIN corr.entries : SlotKept(i)
    /\ (UpdateStep /\ ActiveSlots(corr.entries, ch'.pid) = {}
                   /\ InactiveSlots(corr.entries) # {}) =>
         LET i == Lowest(InactiveSlots(corr.entries))
         IN  /\ corr'.count = corr.count
             /\ corr'.entries[i].pid = ch'.pid
             /\ corr'.entries[i].active
             /\ \A j \in DOMAIN corr.entries \ {i} :
                  corr'.entries[j] = corr.entries[j]

\* C22: after any sequence of correlation_update and correlation_decay calls
\* the table holds at most CORR_MAX_TRACKED slots and active entries, its
\* slot count never decreases, a deactivation moves and removes no slot, and
\* a later creation reuses a deactivated slot in place.
C22_SlotsBounded == []C22_TableBounded /\ [][C22_SlotsStep]_vars

\* C22: the table is full, the slot of the deactivated pid 2 was reused for
\* pid 300, and a further process was then presented
C22_Witness ==
    /\ corr.count = CORR_MAX_TRACKED
    /\ corr.entries[1].pid = 300
    /\ corr.entries[1].active
    /\ corr.entries[0].pid = 1
    /\ corr.entries[CORR_MAX_TRACKED - 1].pid = CORR_MAX_TRACKED
    /\ ch.calls = 2
    /\ ch.pid = 301


\* the slots holding an active entry of the process, and the inactive slots
Tracking(pid) ==
    {i \in DOMAIN corr.entries : corr.entries[i].active /\ corr.entries[i].pid = pid}
Free == {i \in DOMAIN corr.entries : ~corr.entries[i].active}

\* the entry of slot i after the step is a fresh one of the process, updated
\* once with the score and the time of the call
CreatedAt(i) ==
    /\ i \in DOMAIN corr'.entries
    /\ corr'.entries[i] =
         [NewEntry(ch'.pid, 0) EXCEPT
            !.total_samples = 1,
            !.last_seen_ns = ch'.time,
            !.anomaly_score = Smooth(FloatZero, ch'.score),
            !.suspicious_samples = IF FLess(SuspiciousAbove, ch'.score) THEN 1 ELSE 0]

\* the step changes no slot but i
OnlySlot(i) ==
    \A j \in DOMAIN corr.entries \ {i} :
        j \in DOMAIN corr'.entries /\ corr'.entries[j] = corr.entries[j]

\* a call of correlation_update takes the first case that applies
C23_SelectionStep ==
    UpdateStep =>
        IF Tracking(ch'.pid) # {}
        THEN \E i \in Tracking(ch'.pid) :
                /\ corr'.count = corr.count
                /\ OnlySlot(i)
                /\ corr'.entries[i].active
                /\ corr'.entries[i].pid = ch'.pid
                /\ corr'.entries[i].total_samples = corr.entries[i].total_samples + 1
                /\ corr'.entries[i].last_seen_ns = ch'.time
        ELSE IF Free # {}
        THEN /\ corr'.count = corr.count
             /\ OnlySlot(Lowest(Free))
             /\ CreatedAt(Lowest(Free))
        ELSE IF corr.count < CORR_MAX_TRACKED
        THEN /\ corr'.count = corr.count + 1
             /\ OnlySlot(corr.count)
             /\ CreatedAt(corr.count)
        ELSE corr' = corr

\* C23: correlation_update updates the active entry of the pid if there is
\* one; otherwise re-initialises the lowest-indexed inactive slot; otherwise
\* appends a slot while fewer than CORR_MAX_TRACKED exist; otherwise leaves
\* the whole table unchanged.
C23_Selection == [][C23_SelectionStep]_vars

\* C23: an update for a process not tracked was dropped: the table is full
\* of active entries, none of them the process's
C23_Witness ==
    /\ ch.op = "update"
    /\ ch.pid = 300
    /\ corr.count = CORR_MAX_TRACKED
    /\ \A i \in DOMAIN corr.entries :
         corr.entries[i].active /\ corr.entries[i].pid = i + 1


\* the value of a at the exponent e, for e no larger than a's: a = Scaled * 2^e
Scaled(a, e) == a[1] * 2 ^ (a[2] - e)

\* the score s2 is no farther from v than s was, and on the same side of v
NoFarther(s, s2, v) ==
    LET e == Min(Min(s[2], s2[2]), v[2])
        d == Scaled(s, e) - Scaled(v, e)
        d2 == Scaled(s2, e) - Scaled(v, e)
    IN  /\ (IF d2 < 0 THEN -d2 ELSE d2) <= (IF d < 0 THEN -d ELSE d)
        /\ d <= 0 => d2 <= 0
        /\ d >= 0 => d2 >= 0

\* an update of a tracked entry moves its score no farther from the input
C24_TowardStep ==
    (UpdateStep /\ Tracking(ch'.pid) # {}) =>
        \A i \in Tracking(ch'.pid) :
            NoFarther(corr.entries[i].anomaly_score,
                      corr'.entries[i].anomaly_score, ch'.score)

\* C24: each of k updates in a row with the same input score v leaves the
\* smoothed score no farther from v than before and on the same side of v.
C24_Monotone == [][C24_TowardStep]_vars


\* what correlation_decay at the time now makes of an entry of an engine
\* with the given window and decay factor
DecayOutcome(e, now, window_sec, decay_factor) ==
    IF ~e.active THEN e
    ELSE IF now - e.last_seen_ns > window_sec * NsPerSec
    THEN [e EXCEPT !.active = FALSE]
    ELSE LET product == FMulF(e.anomaly_score, ToFloat(decay_factor))
         IN  [e EXCEPT !.anomaly_score =
                          IF FLess(product, SnapBelow) THEN FloatZero ELSE product]

\* a call of correlation_decay deactivates the active entries older than the
\* window and decays the score of the other active ones, and nothing else
C25_DecayStep ==
    DecayStep =>
        /\ corr'.count = corr.count
        /\ corr'.decay_factor = corr.decay_factor
        /\ corr'.window_sec = corr.window_sec
        /\ DOMAIN corr'.entries = DOMAIN corr.entries
        /\ \A i \in DOMAIN corr.entries :
             corr'.entries[i] = DecayOutcome(corr.entries[i], ch'.time,
                                             corr.window_sec, corr.decay_factor)

LevelFor(composite, flags) ==
    IF FLess(CriticalAbove, composite) \/ BitAnd(flags, ANOMALY_BURST_PATTERN) # 0
    THEN "CRITICAL"
    ELSE IF FLess(WarningAbove, composite) THEN "WARNING"
    ELSE "INFO"

\* C26: in the detection loop a sample is given to correlation_update and
\* logger_alert if and only if its flag bitmask is non-zero; the level is
\* CRITICAL when composite > 0.8 or BURST_PATTERN is set, otherwise WARNING
\* when composite > 0.5, otherwise INFO; a sample flagged with OSCILLATION
\* alone and composite <= 0.5 is reported as INFO.
C26_AlertLevel ==
    (loop.total_samples > 0 /\ ~ah.trapped) =>
        /\ loop.raised <=> result.anomaly_flags # 0
        /\ loop.updated <=> result.anomaly_flags # 0
        /\ loop.anomaly_samples <= loop.total_samples
        /\ loop.raised =>
             /\ loop.level = LevelFor(result.composite_score, result.anomaly_flags)
             /\ loop.score = result.composite_score
             /\ loop.flags = result.anomaly_flags
        /\ (/\ result.anomaly_flags = ANOMALY_OSCILLATION
            /\ ~FLess(WarningAbove, result.composite_score)) =>
             loop.raised /\ loop.level = "INFO"

\* C26: a sample flagged with OSCILLATION alone and composite <= 0.5 was
\* reported as INFO and given to correlation_update
C26_Witness ==
    /\ loop.raised
    /\ loop.updated
    /\ result.anomaly_flags = ANOMALY_OSCILLATION
    /\ ~FLess(WarningAbove, result.composite_score)
    /\ loop.level = "INFO"
    /\ corr.count = 1
    /\ corr.entries[0].pid = AlertPid

(***************************************************************************)
(* Properties of the IPC sender.                                           *)
(***************************************************************************)
\* the number of lines on stderr for an error
LinesFor(e) == Cardinality({i \in 1..Len(ipcs.stderr) : ipcs.stderr[i] = e})

\* C27: over any sequence of ipc_socket_send calls a send failing with
\* would-block or connection refused writes no line, the failures of any
\* other error write at most one line in total for that error, and every
\* failure returns -1 to the caller.
C27_LogOnce ==
    /\ \A e \in SendErrnos \cap SilentErrnos : LinesFor(e) = 0
    /\ \A e \in SendErrnos \ SilentErrnos : LinesFor(e) <= 1
    /\ (ipcs.calls > 0 /\ ipcs.outcome # "sent") => ipcs.rc = -1


\* the bytes of a wire record from the offset given, which counts from 0
Bytes(wire, offset, size) == SubSeq(wire, offset + 1, offset + size)

\* C28: the wire record is exactly 68 bytes: the seven 8-byte unsigned
\* fields timestamp_ns, cache_references, cache_misses, branch_instructions,
\* branch_misses, cycles, instructions at the offsets 0 to 48, then the
\* three 4-byte floats cache_miss_rate, branch_miss_rate, ipc at 56, 60 and
\* 64; encoding what was decoded from it gives the same bytes.
C28_WireRecord ==
    ipcs.wire # <<>> =>
        LET s == ipcs.sample[1]
            w == ipcs.wire
        IN  /\ Len(w) = 68
            /\ \A k \in 1..68 : w[k] \in 0..255
            /\ FromLe(Bytes(w, 0, 8)) = s.timestamp_ns
            /\ FromLe(Bytes(w, 8, 8)) = s.cache_references
            /\ FromLe(Bytes(w, 16, 8)) = s.cache_misses
            /\ FromLe(Bytes(w, 24, 8)) = s.branch_instructions
            /\ FromLe(Bytes(w, 32, 8)) = s.branch_misses
            /\ FromLe(Bytes(w, 40, 8)) = s.cycles
            /\ FromLe(Bytes(w, 48, 8)) = s.instructions
            /\ BytesFloat(Bytes(w, 56, 4)) = s.cache_miss_rate
            /\ BytesFloat(Bytes(w, 60, 4)) = s.branch_miss_rate
            /\ BytesFloat(Bytes(w, 64, 4)) = s.ipc
            /\ Decode(w) = s
            /\ Encode(Decode(w)) = w

\* C28: a sample with timestamp 2^31 - 1, cache_miss_rate 0.25 and ipc 3.0
\* was encoded: 0x7fffffff, 0x3e800000 and 0x40400000, low byte first
C28_Witness ==
    /\ ipcs.calls > 0
    /\ Len(ipcs.wire) = 68
    /\ Bytes(ipcs.wire, 0, 8) = <<255, 255, 255, 127, 0, 0, 0, 0>>
    /\ Bytes(ipcs.wire, 8, 8) = <<44, 1, 0, 0, 0, 0, 0, 0>>
    /\ Bytes(ipcs.wire, 56, 4) = <<0, 0, 128, 62>>
    /\ Bytes(ipcs.wire, 64, 4) = <<0, 0, 64, 64>>
    /\ ipcs.outcome = "sent"
    /\ ipcs.rc = 0

(***************************************************************************)
(* Properties of the configuration.                                        *)
(***************************************************************************)
\* the settings kept, the option and the key of each
Settings == {"sampling_interval_us", "learning_duration_sec", "verbose"}
OptionOf(setting) ==
    IF setting = "sampling_interval_us" THEN "i"
    ELSE IF setting = "learning_duration_sec" THEN "l" ELSE "v"

\* the places of the command line, and the lines of the file that -c names,
\* that give a setting
OnLine(setting) == {i \in 1..Len(conf.argv) : conf.argv[i].opt = OptionOf(setting)}
FileNamed == conf.file.exists /\ \E i \in 1..Len(conf.argv) : conf.argv[i].opt = "c"
InFile(setting) ==
    IF FileNamed
    THEN {i \in 1..Len(conf.file.lines) : conf.file.lines[i].key = setting}
    ELSE {}

\* the value a piece of text gives to a setting
ValueOf(setting, text) ==
    IF setting = "verbose" THEN BoolOf(text) ELSE StrToUl(text)

\* the last of a non-empty set of places
Last(places) == CHOOSE i \in places : \A j \in places : j <= i

\* the value in effect by the precedence defaults, file, command line
Effective(setting) ==
    IF OnLine(setting) # {}
    THEN IF setting = "verbose" THEN TRUE
         ELSE ValueOf(setting, conf.argv[Last(OnLine(setting))].arg)
    ELSE IF InFile(setting) # {}
    THEN ValueOf(setting, conf.file.lines[Last(InFile(setting))].val)
    ELSE config_set_defaults(NoConf.cfg)[setting]

\* C29: after config_parse_args has returned 0 every setting has the value
\* of the command line if an option gives it, whatever the order of the
\* options, otherwise the value of the file named by -c if the file gives
\* it, otherwise its default.
C29_CommandLineWins ==
    (conf.parsed /\ conf.rc = 0) =>
        \A setting \in Settings : conf.cfg[setting] = Effective(setting)

(***************************************************************************)
(* Properties of the counters.                                             *)
(***************************************************************************)
\* the field of pmu_reading_t that pmu_read fills from a slot
FieldOf(i) ==
    IF i = 0 THEN "cycles" ELSE IF i = 1 THEN "instructions"
    ELSE IF i = 2 THEN "cache_misses" ELSE IF i = 3 THEN "branch_misses"
    ELSE IF i = 4 THEN "branch_instructions" ELSE "cache_references"

\* the kernel granted an event of the optional slot
Granted(i) ==
    IF i = 2
    THEN pmu.opens \cap {"CACHE_MISSES", "CACHE_REFERENCES_AS_MISSES", "SW_CPU_CLOCK"} # {}
    ELSE IF i = 3 THEN "BRANCH_MISSES" \in pmu.opens
    ELSE IF i = 4 THEN "BRANCH_INSTRUCTIONS" \in pmu.opens
    ELSE "CACHE_REFERENCES" \in pmu.opens

\* C30: pmu_open returns 0 only with the cycles and the instructions
\* counters open; with both granted, and the group enabled, it returns 0
\* whichever of the four optional slots fail to open; an optional slot that
\* is not open reads as zero in every later pmu_read.
C30_Mandatory ==
    pmu.called =>
        /\ pmu.rc = 0 =>
             /\ pmu.fds[0] >= 0
             /\ pmu.fds[1] >= 0
             /\ pmu.group_fd = pmu.fds[0]
             /\ {"CPU_CYCLES", "INSTRUCTIONS"} \subseteq pmu.opens
        /\ ({"CPU_CYCLES", "INSTRUCTIONS"} \subseteq pmu.opens /\ pmu.enabled) =>
             pmu.rc = 0
        /\ \A i \in 2..5 : pmu.fds[i] >= 0 <=> (pmu.rc = 0 /\ Granted(i))
        /\ pmu.reads > 0 =>
             \A i \in 2..5 : pmu.fds[i] < 0 => pmu.out[FieldOf(i)] = 0

\* C30: pmu_open returned 0 with no optional slot open, and a pmu_read then
\* gave the cycles and instructions counted and zero for the other four
C30_Witness ==
    /\ pmu.called
    /\ pmu.rc = 0
    /\ pmu.opens = {"CPU_CYCLES", "INSTRUCTIONS"}
    /\ \A i \in 2..5 : pmu.fds[i] = -1
    /\ pmu.reads > 0
    /\ pmu.read_rc = 0
    /\ pmu.out.cycles = 2
    /\ pmu.out.instructions = 4
    /\ pmu.out.cache_misses = 0
    /\ pmu.out.branch_misses = 0
    /\ pmu.out.branch_instructions = 0
    /\ pmu.out.cache_references = 0

(***************************************************************************)
(* Privilege demotion.                                                     *)
(***************************************************************************)
\* where main is before the learning loop has ended and the baseline is
\* finalized: INIT and LEARNING
BeforeFinalizePcs ==
    {"config", "pmu_test", "sigaction", "logger_init", "ringbuffer_init",
     "telemetry_start", "anomaly_init", "ipc_init", "learn_guard",
     "learn_body", "post_learn", "zero_check", "finalize"}

\* a step that calls drop_privileges or changes the identity of the process
DemotionStep == hist'.priv_drops # hist.priv_drops \/ hist'.cred # hist.cred

C31_DemotionPlaced ==
    /\ hist.priv_drops <= 1
    /\ hist.cred.setgid_calls <= 1
    /\ hist.cred.setuid_calls <= 1
    /\ (main.pc \in BeforeFinalizePcs \/ hist.finalize_calls = 0) =>
          hist.priv_drops = 0 /\ hist.cred = NoCred
    /\ hist.detect_calls > 0 =>
          /\ hist.priv_drops = 1
          /\ hist.launched = "sudo" =>
                hist.cred.order = <<"setgid", "setuid">>
    /\ hist.launched \in {"user", "root"} => hist.cred.order = <<>>

C31_DemotionStepPlaced ==
    DemotionStep =>
        /\ main.pc = "drop_privileges"
        /\ hist.finalize_calls = 1
        /\ hist.detect_calls = 0
        /\ hist.priv_drops = 0
        /\ hist'.priv_drops = 1

\* C31: drop_privileges runs at most once in a run, and only between the
\* finalization of the baseline and the first pass of the detection loop:
\* never in INIT or LEARNING, never in a run that is cancelled or fails
\* before finalization; and when the process was launched as root through
\* sudo, setgid and then setuid have been called before the first
\* anomaly_detect call.
C31_DemotionOnce == []C31_DemotionPlaced /\ [][C31_DemotionStepPlaced]_vars

\* a run launched through sudo that detects with the invoking user's identity
C31_Witness ==
    /\ hist.launched = "sudo"
    /\ hist.detect_calls > 0
    /\ hist.cred.euid = 1000
    /\ hist.cred.egid = 100

(***************************************************************************)
(* The cooldown of the logger.                                             *)
(***************************************************************************)
\* a step that is one call of logger_alert
AlertStep == lg'.calls = lg.calls + 1

\* the alert written last is younger than the cooldown at time now
Recent(out, cooldown_sec, now) ==
    /\ cooldown_sec > 0
    /\ out # <<>>
    /\ now - out[Len(out)].ns < cooldown_sec * NsPerSec

C32_Spaced ==
    lg.log.cooldown_sec > 0 =>
        \A i, j \in 1..Len(lg.out) :
            i < j => lg.out[j].ns - lg.out[i].ns >= lg.log.cooldown_sec * NsPerSec

C32_AlertStep ==
    AlertStep =>
        /\ lg'.last.suppressed <=> Recent(lg.out, lg.log.cooldown_sec, lg'.now)
        /\ lg'.last.suppressed => lg'.out = lg.out /\ lg'.log = lg.log
        /\ ~lg'.last.suppressed =>
              /\ Len(lg'.out) = Len(lg.out) + 1
              /\ lg'.out[Len(lg'.out)].ns = lg'.now
        /\ lg.out = <<>> => lg'.out # <<>>
        /\ lg.log.cooldown_sec = 0 => ~lg'.last.suppressed

IsPowerOfTwo(n) == \E k \in 0..SizeBits : n = 2 ^ k

\* C33: ringbuffer_init called with a capacity of 1 or more, whatever its
\* size, leaves when it returns 0 a capacity that is a power of two and not
\* smaller than the request; called with 0 it returns -1 and allocates
\* nothing.
C33_Capacity ==
    ri.called =>
        /\ (ri.requested >= 1 /\ ri.rc = 0) =>
              IsPowerOfTwo(capacity) /\ capacity >= ri.requested
        /\ ri.requested = 0 => ri.rc = -1 /\ ri.block = "none"

(***************************************************************************)
(* The value ringbuffer_count returns.                                     *)
(***************************************************************************)
\* a step in which ringbuffer_count returns
CountReturns == cnt.pc = "load_tail" /\ cnt'.pc = "idle"

C34_InRange == cnt.result \in 0..(capacity - 1)

C34_CountStep ==
    CountReturns =>
        /\ cnt'.result \in 0..(capacity - 1)
        /\ cnt'.quiet => cnt'.result = Len(pushed) - Len(popped)

\* C34: with one producer and one consumer interleaved in any way,
\* ringbuffer_count on a ring buffer of capacity C returns a value from 0 to
\* C - 1, and a call made while no push and no pop is in progress returns
\* the number of samples pushed and not yet popped.
C34_Count == []C34_InRange /\ [][C34_CountStep]_vars

\* a count taken in a quiet buffer that holds two samples behind a head
\* that has wrapped
C34_Witness ==
    /\ cnt.called
    /\ cnt.quiet
    /\ cnt.result = 2
    /\ head < tail

(***************************************************************************)
(* Push and pop do not wait.                                               *)
(***************************************************************************)
\* the steps of a push, and of a pop, that has begun
PushStep == PushLoadTail \/ PushWrite \/ PushPublish
PopStep == PopLoadHead \/ PopCopy \/ PopPublish

\* how far a call has come
PushRank(pc) ==
    IF pc = "idle" THEN 0 ELSE IF pc = "load_tail" THEN 1
    ELSE IF pc = "write" THEN 2 ELSE 3
PopRank(pc) ==
    IF pc = "idle" THEN 0 ELSE IF pc = "load_head" THEN 1
    ELSE IF pc = "copy" THEN 2 ELSE 3

\* a call in progress can always take its next step
C35_CanStep ==
    /\ p_pc # "idle" => ENABLED PushStep
    /\ c_pc # "idle" => ENABLED PopStep

\* every step of a call moves it forward or ends it with a result
C35_Forward ==
    /\ <<p_pc, p_head, p_tail, p_sample, head, pushed, pushResults>>'
          # <<p_pc, p_head, p_tail, p_sample, head, pushed, pushResults>> =>
          \/ PushRank(p_pc') = PushRank(p_pc) + 1 /\ pushResults' = pushResults
          \/ /\ p_pc # "idle"
             /\ p_pc' = "idle"
             /\ Len(pushResults') = Len(pushResults) + 1
    /\ <<c_pc, c_tail, c_head, c_out, tail, popped, popResults>>'
          # <<c_pc, c_tail, c_head, c_out, tail, popped, popResults>> =>
          \/ PopRank(c_pc') = PopRank(c_pc) + 1 /\ popResults' = popResults
          \/ /\ c_pc # "idle"
             /\ c_pc' = "idle"
             /\ Len(popResults') = Len(popResults) + 1

\* C35: ringbuffer_push and ringbuffer_pop never block: a call that has
\* begun can take its next step in every state, whatever the other thread is
\* doing, also when that thread is stopped in the middle of its own call;
\* every step moves the call forward, so it returns true or false (full,
\* empty) after at most four steps of its own.
C35_NonBlocking == []C35_CanStep /\ [][C35_Forward]_vars

\* the consumer stopped in the middle of its first pop while three pushes
\* have returned, two of them after the pop began
C35_Witness ==
    /\ c_pc = "copy"
    /\ Len(popResults) = 0
    /\ popStartAt = 1
    /\ Len(pushResults) = 3
    /\ p_pc = "idle"

(***************************************************************************)
(* The slot the producer writes and the slot the consumer copies.          *)
(***************************************************************************)
\* slot i holds a sample that was published and whose pop has not returned
InUse(i) ==
    BitAnd(SizeWrap(i - tail), SizeWrap(capacity - 1)) < RbCount(head, tail, capacity)

\* the producer is between its test for room and the store of head: it is
\* writing slot p_head, or has written it and not yet published it
Writing == p_pc \in {"write", "publish"}

\* the consumer is between its test for a sample and the store of tail: it
\* is copying slot c_tail, or has copied it
Copying == c_pc \in {"copy", "publish"}

\* C36: with push as (load indices, write slot, publish head) and pop as
\* (load indices, copy slot, publish tail) in separate steps, in every
\* interleaving of one producer and one consumer the slot the consumer
\* copies is never the slot the producer is writing or has not published:
\* it holds the complete sample that is next in push order; and the slot
\* the producer writes never holds a sample whose pop has not returned.
C36_SlotsApart ==
    /\ (Writing /\ Copying) => p_head # c_tail
    /\ Copying =>
          /\ InUse(c_tail)
          /\ buffer[c_tail] = pushed[Len(popped) + 1]
    /\ Writing => ~InUse(p_head)

\* the producer writes one slot while the consumer copies another, the
\* producer having wrapped round to a slot below the consumer's
C36_Witness ==
    /\ p_pc = "write"
    /\ c_pc = "copy"
    /\ p_head < c_tail
    /\ Len(popped) >= 1

(***************************************************************************)
(* The sampler loop: failed reads and the first read.                      *)
(***************************************************************************)
\* a tick of sampling_loop whose pmu_read failed
FailedTick == sl'.fails = sl.fails + 1

C37_FailedTick ==
    FailedTick =>
        /\ sl'.prev = sl.prev
        /\ sl'.have_prev = sl.have_prev
        /\ sl'.attempts = sl.attempts
        /\ sl'.last = sl.last

C37_Snapshot ==
    /\ sl.have_prev <=> sl.reads >= 1
    /\ sl.prev = sl.last_ok_read
    /\ sl.attempts = IF sl.reads = 0 THEN 0 ELSE sl.reads - 1
    /\ sl.reads <= 1 => ~sl.last.valid
    /\ sl.last.valid =>
          sl.last.counters = Delta(sl.last.cur, sl.last.prev_read)

\* C37: in sampling_loop a tick whose pmu_read fails pushes nothing and
\* leaves prev as it was, so the sample of the next successful read holds the
\* counts since the last successful read, the skipped ticks included; the
\* first successful read pushes nothing and only sets prev, so
\* ringbuffer_push has been called once for every successful read but the
\* first.
C37_SkippedTicks == []C37_Snapshot /\ [][C37_FailedTick]_vars

\* a sample pushed by the first successful read after a failed one, during
\* which the counters moved on
C37_Witness ==
    /\ sl.last.valid
    /\ sl.last.after_skip
    /\ sl.fails >= 1
    /\ sl.attempts = sl.reads - 1
    /\ sl.last.counters.cycles > 5 * MaxInc

(***************************************************************************)
(* Descriptors of the counters: opened by pmu_open, closed by pmu_close.   *)
(***************************************************************************)
\* the context holds no descriptor and no group leader
Released ==
    /\ \A i \in 0..(PMU_NUM_COUNTERS - 1) : pmu.fds[i] = -1
    /\ pmu.group_fd = -1

\* every descriptor made has been closed, once
AllShutOnce == \A d \in Descriptors : pmu.shut[d] = IF d \in pmu.made THEN 1 ELSE 0

\* a call of pmu_close on a context pmu_close has already been called on
SecondClose == pmu.closes >= 1 /\ pmu'.closes = pmu.closes + 1

C38_Closed ==
    /\ \A d \in Descriptors : pmu.shut[d] <= 1 /\ (pmu.shut[d] = 1 => d \in pmu.made)
    /\ ProbeId \in pmu.made => pmu.shut[ProbeId] = 1
    /\ (pmu.called /\ pmu.rc # 0 /\ pmu.closes = 0) => Released /\ AllShutOnce
    /\ pmu.closes >= 1 => Released /\ AllShutOnce

C38_SecondClose == SecondClose => pmu' = [pmu EXCEPT !.closes = @ + 1]

\* C38: when pmu_open returns failure every descriptor it opened in that
\* call, the probe for cpu = -1 included, has been closed and the context
\* holds no descriptor and no group leader; pmu_close closes each descriptor
\* the context holds exactly once, and a second pmu_close changes nothing.
C38_Descriptors == []C38_Closed /\ [][C38_SecondClose]_vars

\* pmu_open failed at the group enable after the probe and all six slots
\* had been opened, and pmu_close has been called twice since
C38_Witness ==
    /\ pmu.called
    /\ pmu.rc # 0
    /\ pmu.made = Descriptors
    /\ pmu.closes = 2
    /\ AllShutOnce

(***************************************************************************)
(* The entries of the correlation engine: one per process, fresh when      *)
(* created.                                                                *)
(***************************************************************************)
\* the slots that hold an active entry of the process
Holders(engine, pid) ==
    {i \in DOMAIN engine.entries :
        engine.entries[i].pid = pid /\ engine.entries[i].active}

\* every process has at most one active entry, the one correlation_lookup
\* returns
C39_OnePerPid ==
    \A pid \in CorrPids :
        /\ Cardinality(Holders(corr, pid)) <= 1
        /\ Holders(corr, pid) =
              IF correlation_lookup(corr, pid) = -1 THEN {}
              ELSE {correlation_lookup(corr, pid)}

\* a call of correlation_update for a process that has no active entry
Creation ==
    /\ ch'.calls = ch.calls + 1
    /\ ch'.op = "update"
    /\ Holders(corr, ch'.pid) = {}

\* the entry such a call leaves: one step of the average from score 0, one
\* sample counted, nothing of what the slot held before
C39_Fresh ==
    Creation =>
        /\ Holders(corr', ch'.pid) # {}
        /\ \A i \in Holders(corr', ch'.pid) :
              /\ corr'.entries[i].anomaly_score = Smooth(FloatZero, ch'.score)
              /\ corr'.entries[i].total_samples = 1
              /\ corr'.entries[i].suspicious_samples
                    = IF FLess(SuspiciousAbove, ch'.score) THEN 1 ELSE 0
              /\ corr'.entries[i].last_seen_ns = ch'.time
              /\ \A j \in DOMAIN corr.entries :
                    j # i => corr'.entries[j] = corr.entries[j]

\* C39: after any sequence of correlation_update and correlation_decay no
\* process has two active entries, so correlation_lookup has one entry to
\* return; and an entry made in a reused or a new slot starts from score 0
\* and zero counters, whatever the slot or the process had before.
C39_Entries == []C39_OnePerPid /\ [][C39_Fresh]_vars

\* a slot reused: its entry was deactivated by correlation_decay, and it now
\* holds the entry of an update with score 0, with one sample counted
C39_Witness ==
    /\ ch.made = "reused"
    /\ ch.score = FloatZero
    /\ corr.count = 1
    /\ corr.entries[0].active
    /\ corr.entries[0].total_samples = 1
    /\ corr.entries[0].anomaly_score = FloatZero

(***************************************************************************)
(* What anomaly_learn and anomaly_detect leave alone.                      *)
(***************************************************************************)
\* the parts of an anomaly_engine_t
LearningState(e) ==
    <<e.sum_cmr, e.sum_cmr2, e.sum_bmr, e.sum_bmr2, e.sum_ipc, e.sum_ipc2, e.n>>
DetectionState(e) == <<e.consecutive_anomalies, e.recent_cmr, e.recent_idx>>
EngineSettings(e) == <<e.z_threshold, e.burst_window, e.recent_cap>>

LearnStep == ah'.learns = ah.learns + 1
DetectStep == ah'.detects = ah.detects + 1
FinalizeStep == ah'.finalizes = ah.finalizes + 1

C40_LearnFrame ==
    LearnStep =>
        /\ ae'.baseline = ae.baseline
        /\ DetectionState(ae') = DetectionState(ae)
        /\ EngineSettings(ae') = EngineSettings(ae)
        /\ ae'.n = ae.n + 1
        /\ result' = result

C40_DetectFrame ==
    DetectStep =>
        /\ ae'.baseline = ae.baseline
        /\ LearningState(ae') = LearningState(ae)
        /\ EngineSettings(ae') = EngineSettings(ae)

C40_BaselineFixed == ae'.baseline # ae.baseline => FinalizeStep

\* C40: anomaly_learn changes the running sums and the sample count and
\* nothing else of the engine, anomaly_detect changes the burst counter and
\* the circular window and nothing else, so the baseline changes in
\* anomaly_finalize_baseline only and every detection uses the one computed
\* there.
C40_Disjoint ==
    [][C40_LearnFrame /\ C40_DetectFrame /\ C40_BaselineFixed]_vars

\* both calls made around a finalization: the baseline is that of the one
\* sample learned before it, a second sample was learned, and a detection
\* has counted an anomaly and moved the window on
C40_Witness ==
    /\ ae.baseline.ready
    /\ ae.baseline.sample_count = 1
    /\ ae.n = 2
    /\ ah.detects = 1
    /\ ~ah.trapped
    /\ ae.consecutive_anomalies = 1
    /\ ae.recent_idx = 1

====
